---- MODULE Spec2Model ----
(***************************************************************************)
(* State-machine model of OGbotas.py: the seller vote ledger, the          *)
(* complaint workflow, the point ledger and the coinflip wager engine.     *)
(* Every handler is one action that models the handler's whole body,       *)
(* including the state it leaves behind when a dictionary access raises.   *)
(* Time is measured in seconds; datetime.now() is the variable now.        *)
(***************************************************************************)
EXTENDS Integers, Sequences, FiniteSets, TLC

VARIABLES
    now,                    \* the wall clock read by datetime.now(TIMEZONE)
    plain,                  \* the stores that load_data returned as plain dicts
    trusted_sellers,        \* list of seller tags
    votes_weekly,           \* dict: tag -> int
    votes_monthly,          \* dict: tag -> list of <<timestamp, delta>>
    votes_alltime,          \* dict: tag -> int
    voters,                 \* set of user ids
    downvoters,             \* set of user ids
    pending_downvotes,      \* dict: complaint id -> <<vendor, user, reason, ts>>
    approved_downvotes,     \* dict: complaint id -> <<vendor, user, reason, ts>>
    vote_history,           \* dict: tag -> list of <<user, direction, reason, ts>>
    last_vote_attempt,      \* dict: user -> timestamp
    last_downvote_attempt,  \* dict: user -> timestamp
    complaint_id,           \* the complaint counter
    user_points,            \* dict: user -> int
    coinflip_challenges,    \* dict: target -> <<initiator, amount, timestamp,
                            \*   initiator_username, opponent_tag, chat_id>>
    username_to_id,         \* dict: "@" + lower-cased username -> user
    daily_messages,         \* dict: user -> dict: date -> int
    weekly_messages,        \* dict: user -> int
    alltime_messages,       \* dict: user -> int
    chat_streaks,           \* dict: user -> int
    last_chat_day,          \* dict: user -> timestamp
    daily_order,            \* the keys of daily_messages in insertion order
    award,                  \* the award_daily_points job: where its loop stands
    award_ran,              \* the date of the job queue's last daily run
    sent,                   \* user -> number of chat messages handled so far
    jobs,                   \* the expire_challenge jobs the job queue holds
    handler,                \* the update handler suspended at an await, if any
    \* history variables (not program state): what has happened so far
    deltas_ever,            \* tag -> signed sum of the vote deltas ever tallied
    deltas_since,           \* tag -> deltas and admin adjustments since the tally
                            \*        was last deleted by a seller removal
    accepted_at,            \* user -> time of the user's last accepted upvote
    since_reset,            \* users with an accepted upvote since the last reset
    issued_ids,             \* list of the complaint ids issued, in order
    approvals,              \* complaint id -> number of successful approvals
    refused,                \* the refusals answered so far, by outcome
    challenge_no,           \* number of challenges stored so far
    instance_of,            \* target -> number of the challenge stored for it
    accepted_inst,          \* challenges whose acceptance transferred points
    expired_inst,           \* challenges an expiry callback deleted
    \* a leaderboard taken on its own: what the sort is given and what it shows
    items,                  \* the scores of store.items(), in iteration order
    board,                  \* the board lines shown: <<position in items, score>>
    polls                   \* dict: poll id -> [question, yes, no, voters]

ledgerVars == <<now, plain, trusted_sellers, votes_weekly, votes_monthly,
                votes_alltime, voters, downvoters, pending_downvotes,
                approved_downvotes, vote_history, last_vote_attempt,
                last_downvote_attempt, complaint_id, user_points>>
chatVars == <<username_to_id, daily_messages, weekly_messages,
              alltime_messages, chat_streaks, last_chat_day, daily_order,
              award, award_ran, sent>>
wagerVars == <<coinflip_challenges, jobs, handler, challenge_no, instance_of,
               accepted_inst, expired_inst>>
ghostVars == <<deltas_ever, deltas_since, accepted_at, since_reset,
               issued_ids, approvals, refused>>
boardVars == <<items, board>>
pollVars == <<polls>>
vars == <<ledgerVars, ghostVars, chatVars, wagerVars, boardVars, pollVars>>

(***************************************************************************)
(* Program constants                                                       *)
(***************************************************************************)
Day == 86400
CooldownDays == 7
Week == CooldownDays * Day
VotePoints == 5
DatetimeMin == -2000000000
ADMIN_CHAT_ID == 9
GROUP_CHAT_ID == -100
OtherChat == GROUP_CHAT_ID - 100

(***************************************************************************)
(* Bounds of the model and the inputs the handlers are tried on            *)
(***************************************************************************)
MaxHistory == 2
MaxMonthly == 2
MaxTally == 2
MaxMessages == 2
MaxPoints == 5
MaxChallenges == 2

Users == {1, 2}
Actors == {1, ADMIN_CHAT_ID}
Chats == {GROUP_CHAT_ID, OtherChat}
Names == {"Seller1", "Vendor"}
Tag(n) == <<"@", n>>
Tags == {Tag(n) : n \in Names}
VendorArgs == Tags \cup {<<"Seller1">>}
Reasons == {"", "late delivery"}
Times == {0, 3 * Day, Week}
AdjustAmounts == {-1, 2}
ApproveChats == Chats \cup {ADMIN_CHAT_ID}
ComplaintArgs == 1..MaxHistory
Texts == {<<"labas">>, <<"/", "points">>}
Opponents == {<<"@", "A", "l">>, <<"@", "a", "l">>, <<"@", "b", "o">>,
              <<"@", "z", "z">>}
WagerAmounts == {0, 5}
CreditAmounts == {5}
WagerTimes == {0, 300, 301}
ChatTimes == {Day, 2 * Day}
AwardCounts == {49, 50, 120, 200}
AwardStreaks == {2, 9}
Stores == {"votes_weekly", "votes_monthly", "votes_alltime", "vote_history",
           "user_points"}
\* the snapshot files found at start: none; only the one pridetitaskus
\* writes; only the one addpoints, the daily awards and the wagers write
PlainChoices == {{}, {"votes_alltime"}, {"user_points"}}

(***************************************************************************)
(* dict and list helpers                                                   *)
(***************************************************************************)
EmptyDict == << >>
\* no update handler is suspended
NoHandler == [at |-> "idle"]
\* the award_daily_points job is not running
NoAward == [at |-> "idle"]
\* the job queue has not run the daily job yet
NeverRan == -1
\* the falsy target_id of a username the directory does not hold
NoTarget == 0
Get(d, k, default) == IF k \in DOMAIN d THEN d[k] ELSE default
Put(d, k, v) == [x \in DOMAIN d \cup {k} |-> IF x = k THEN v ELSE d[x]]
Pop(d, k) == [x \in DOMAIN d \ {k} |-> d[x]]
SetDefault(d, k, v) == IF k \in DOMAIN d THEN d ELSE Put(d, k, v)
InList(x, l) == \E i \in DOMAIN l : l[i] = x
ListRemove(l, x) ==
    LET i == CHOOSE j \in DOMAIN l : l[j] = x /\ \A k \in 1..(j - 1) : l[k] # x
    IN  SubSeq(l, 1, i - 1) \o SubSeq(l, i + 1, Len(l))
RECURSIVE SumLens(_, _)
SumLens(d, keys) ==
    IF keys = {} THEN 0
    ELSE LET k == CHOOSE x \in keys : TRUE
         IN  Len(d[k]) + SumLens(d, keys \ {k})
HistorySize == SumLens(vote_history, DOMAIN vote_history)

\* str(chat_id) in allowed_groups
is_allowed_group(chat_id) == chat_id = GROUP_CHAT_ID
\* if not vendor.startswith('@'): vendor = '@' + vendor
Normalize(vendor) == IF Head(vendor) = "@" THEN vendor ELSE <<"@">> \o vendor
\* a missing key of a defaultdict store is created, of a plain dict raises
Raises(store, d, k) == store \in plain /\ k \notin DOMAIN d

(***************************************************************************)
(* Init: the process right after start.  Each persisted store is either    *)
(* the supplied defaultdict (no snapshot file) or a plain dict loaded from *)
(* a snapshot that holds no key of the modelled tags and users.            *)
(***************************************************************************)
InitStores ==
    /\ trusted_sellers = <<Tag("Seller1"), Tag("Seller2"), Tag("Seller3")>>
    /\ votes_weekly = EmptyDict
    /\ votes_monthly = EmptyDict
    /\ votes_alltime = EmptyDict
    /\ voters = {}
    /\ downvoters = {}
    /\ pending_downvotes = EmptyDict
    /\ approved_downvotes = EmptyDict
    /\ vote_history = EmptyDict
    /\ last_vote_attempt = EmptyDict
    /\ last_downvote_attempt = EmptyDict
    /\ complaint_id = 0
    /\ user_points = EmptyDict
    /\ deltas_ever = [t \in Tags |-> 0]
    /\ deltas_since = [t \in Tags |-> 0]
    /\ accepted_at = EmptyDict
    /\ since_reset = {}
    /\ issued_ids = << >>
    /\ approvals = EmptyDict
    /\ refused = {}
    /\ coinflip_challenges = EmptyDict
    /\ jobs = {}
    /\ handler = NoHandler
    /\ challenge_no = 0
    /\ instance_of = EmptyDict
    /\ accepted_inst = {}
    /\ expired_inst = {}
    /\ award = NoAward
    /\ award_ran = NeverRan

\* nobody has chatted yet
InitChat ==
    /\ username_to_id = EmptyDict
    /\ daily_messages = EmptyDict
    /\ weekly_messages = EmptyDict
    /\ alltime_messages = EmptyDict
    /\ chat_streaks = EmptyDict
    /\ last_chat_day = EmptyDict
    /\ daily_order = << >>
    /\ sent = [u \in Users |-> 0]

\* no leaderboard is looked at on its own and no poll was started
InitBoard ==
    /\ items = << >>
    /\ board = << >>
    /\ polls = EmptyDict

Init ==
    /\ now \in Times
    /\ plain \in PlainChoices
    /\ InitStores
    /\ InitChat
    /\ InitBoard

(***************************************************************************)
(* The clock: datetime.now() is wall-clock time and may be set back.       *)
(***************************************************************************)
Tick == /\ \E t \in Times : t # now /\ now' = t
        /\ UNCHANGED <<plain, trusted_sellers, votes_weekly, votes_monthly,
                       votes_alltime, voters, downvoters, pending_downvotes,
                       approved_downvotes, vote_history, last_vote_attempt,
                       last_downvote_attempt, complaint_id, user_points>>
        /\ UNCHANGED <<ghostVars, chatVars, wagerVars>>
        /\ UNCHANGED <<boardVars, pollVars>>

(***************************************************************************)
(* handle_vote_button                                                      *)
(***************************************************************************)
\* a cooldown that is over when the clock is behind the last vote
CooldownRemainingForward(t, last) ==
    IF t < last THEN 0 ELSE Week - (t - last)
\* a cooldown of three days instead of seven
CooldownRemainingShort(t, last) == 3 * Day - (t - last)
\* cooldown_remaining = timedelta(days=7) - (now - last_vote)
CooldownRemaining(t, last) == Week - (t - last)
Max(a, b) == IF a >= b THEN a ELSE b
\* days_left without the floor of one day
DaysLeftUnfloored(remaining) == remaining \div Day
\* days_left = max(1, int(cooldown_remaining.total_seconds() // 86400))
DaysLeft(remaining) == Max(1, remaining \div Day)

\* a vote that is not checked against the roster
VoteOutcomeAnySeller(user_id, seller) ==
    IF CooldownRemaining(now, Get(last_vote_attempt, user_id, DatetimeMin)) > 0
    THEN "CooldownActive"
    ELSE "Accepted"
VoteOutcome(user_id, seller) ==
    IF ~InList(seller, trusted_sellers) THEN "UnknownSeller"
    ELSE IF CooldownRemaining(now, Get(last_vote_attempt, user_id, DatetimeMin)) > 0
         THEN "CooldownActive"
    ELSE IF Raises("vote_history", vote_history, seller) THEN "KeyError"
    ELSE "Accepted"

\* a tally that counts a vote twice
TallyUpTwice(store, seller) == Put(store, seller, Get(store, seller, 0) + 2)
\* the three tallies after lines 429-437
TallyUp(store, seller) == Put(store, seller, Get(store, seller, 0) + 1)
\* a history that keeps the latest event of a seller only
RecordedLatestOnly(history, seller, event) == Put(history, seller, <<event>>)
\* vote_history[seller].append(event); vote_history.setdefault(vendor,
\* []).append(event)
Recorded(history, seller, event) ==
    Put(history, seller, Append(Get(history, seller, << >>), event))
MonthlyAdd(store, seller, ts, delta) ==
    Put(store, seller, Append(Get(store, seller, << >>), <<ts, delta>>))

VoteRoom(seller) ==
    /\ HistorySize < MaxHistory
    /\ Len(Get(votes_monthly, seller, << >>)) < MaxMonthly
    /\ Get(votes_alltime, seller, 0) < MaxTally

handle_vote_button(user_id, seller) ==
    LET outcome == VoteOutcome(user_id, seller) IN
    /\ outcome \in {"KeyError", "Accepted"} => VoteRoom(seller)
    /\ IF outcome \in {"UnknownSeller", "CooldownActive"}
       THEN UNCHANGED <<votes_weekly, votes_monthly, votes_alltime, voters,
                        vote_history, user_points, last_vote_attempt,
                        deltas_ever, deltas_since, accepted_at, since_reset>>
       ELSE /\ votes_weekly' = TallyUp(votes_weekly, seller)
            /\ votes_monthly' = MonthlyAdd(votes_monthly, seller, now, 1)
            /\ votes_alltime' = TallyUp(votes_alltime, seller)
            /\ voters' = voters \cup {user_id}
            /\ deltas_ever' = [deltas_ever EXCEPT ![seller] = @ + 1]
            /\ deltas_since' = [deltas_since EXCEPT ![seller] = @ + 1]
            /\ IF outcome = "KeyError"
               THEN \* vote_history[seller] raised: line 439 and after never ran
                    /\ user_points' = SetDefault(user_points, user_id, 0)
                    /\ UNCHANGED <<vote_history, last_vote_attempt,
                                   accepted_at, since_reset>>
               ELSE /\ vote_history' =
                           Recorded(vote_history, seller,
                                    <<user_id, "up", "Button vote", now>>)
                    /\ user_points' =
                           Put(user_points, user_id,
                               Get(user_points, user_id, 0) + VotePoints)
                    /\ last_vote_attempt' = Put(last_vote_attempt, user_id, now)
                    /\ accepted_at' = Put(accepted_at, user_id, now)
                    /\ since_reset' = since_reset \cup {user_id}
    /\ refused' = IF outcome = "UnknownSeller"
                  THEN refused \cup {outcome} ELSE refused
    /\ UNCHANGED <<now, plain, trusted_sellers, downvoters, pending_downvotes,
                   approved_downvotes, last_downvote_attempt, complaint_id,
                   issued_ids, approvals>>
    /\ UNCHANGED <<chatVars, wagerVars>>
    /\ UNCHANGED <<boardVars, pollVars>>

(***************************************************************************)
(* nepatiko: file a complaint (a down-vote awaiting approval)              *)
(***************************************************************************)
\* a complaint that needs no reason
ComplaintOutcomeAnyReason(user_id, chat_id, reason) ==
    IF ~is_allowed_group(chat_id) THEN "NotAllowedGroup"
    ELSE IF now - Get(last_downvote_attempt, user_id, DatetimeMin) < Week
         THEN "CooldownActive"
    ELSE IF Raises("user_points", user_points, user_id) THEN "KeyError"
    ELSE "Filed"
ComplaintOutcome(user_id, chat_id, reason) ==
    IF ~is_allowed_group(chat_id) THEN "NotAllowedGroup"
    ELSE IF now - Get(last_downvote_attempt, user_id, DatetimeMin) < Week
         THEN "CooldownActive"
    ELSE IF reason = "" THEN "MissingReason"
    ELSE IF Raises("user_points", user_points, user_id) THEN "KeyError"
    ELSE "Filed"

\* a counter that is never advanced
NextComplaintIdStuck(cid) == cid
\* global complaint_id; complaint_id += 1
NextComplaintId(cid) == cid + 1

nepatiko(user_id, chat_id, arg, reason) ==
    LET outcome == ComplaintOutcome(user_id, chat_id, reason)
        vendor == Normalize(arg)
        cid == NextComplaintId(complaint_id)
        \* reading last_downvote_attempt[user_id] creates a missing key with
        \* datetime.min
        touched == SetDefault(last_downvote_attempt, user_id, DatetimeMin)
    IN
    /\ outcome \in {"KeyError", "Filed"} => HistorySize < MaxHistory
    /\ IF outcome = "NotAllowedGroup"
       THEN UNCHANGED <<last_downvote_attempt, complaint_id, pending_downvotes,
                        downvoters, vote_history, user_points, issued_ids>>
       ELSE IF outcome \in {"CooldownActive", "MissingReason"}
       THEN /\ last_downvote_attempt' = touched
            /\ UNCHANGED <<complaint_id, pending_downvotes, downvoters,
                           vote_history, user_points, issued_ids>>
       ELSE /\ complaint_id' = cid
            /\ issued_ids' = Append(issued_ids, cid)
            /\ pending_downvotes' =
                   Put(pending_downvotes, cid, <<vendor, user_id, reason, now>>)
            /\ downvoters' = downvoters \cup {user_id}
            /\ vote_history' =
                   Recorded(vote_history, vendor,
                            <<user_id, "down", reason, now>>)
            /\ IF outcome = "KeyError"
               THEN \* user_points[user_id] raised: lines 566-575 never ran
                    /\ last_downvote_attempt' = touched
                    /\ UNCHANGED user_points
               ELSE /\ user_points' =
                           Put(user_points, user_id,
                               Get(user_points, user_id, 0) + VotePoints)
                    /\ last_downvote_attempt' = Put(touched, user_id, now)
    /\ UNCHANGED <<now, plain, trusted_sellers, votes_weekly, votes_monthly,
                   votes_alltime, voters, approved_downvotes, last_vote_attempt,
                   deltas_ever, deltas_since, accepted_at, since_reset,
                   approvals>>
    /\ UNCHANGED <<chatVars, wagerVars, refused>>
    /\ UNCHANGED <<boardVars, pollVars>>

(***************************************************************************)
(* approve: the moderator approves a pending complaint                     *)
(***************************************************************************)
\* an approval open to everybody
ApproveOutcomeOpen(actor, chat_id, cid) ==
    IF cid \notin DOMAIN pending_downvotes THEN "UnknownComplaint"
    ELSE "Approved"
ApproveOutcome(actor, chat_id, cid) ==
    IF actor # ADMIN_CHAT_ID THEN "NotAuthorized"
    ELSE IF ~(is_allowed_group(chat_id) \/ chat_id = actor) THEN "WrongChat"
    ELSE IF cid \notin DOMAIN pending_downvotes THEN "UnknownComplaint"
    ELSE LET vendor == pending_downvotes[cid][1] IN
         IF Raises("votes_weekly", votes_weekly, vendor) THEN "KeyErrorWeekly"
         ELSE IF Raises("votes_monthly", votes_monthly, vendor)
              THEN "KeyErrorMonthly"
         ELSE IF Raises("votes_alltime", votes_alltime, vendor)
              THEN "KeyErrorAlltime"
         ELSE "Approved"

\* votes_weekly[vendor] -= 1 and votes_alltime[vendor] -= 1
TallyDown(store, vendor) == Put(store, vendor, Get(store, vendor, 0) - 1)
\* an approval stamped with the time of the approval
ApprovalStampNow(complaint) == now
\* the timestamp of the monthly entry an approval appends
ApprovalStamp(complaint) == complaint[4]
\* approved_downvotes[cid] = pending_downvotes[cid]
Approved(store, cid, complaint) == Put(store, cid, complaint)

ApproveRoom(vendor) ==
    /\ Get(votes_weekly, vendor, 0) > -MaxTally
    /\ Len(Get(votes_monthly, vendor, << >>)) < MaxMonthly

approve(actor, chat_id, cid) ==
    LET outcome == ApproveOutcome(actor, chat_id, cid) IN
    /\ IF outcome \in {"NotAuthorized", "WrongChat", "UnknownComplaint",
                       "KeyErrorWeekly"}
       THEN UNCHANGED <<votes_weekly, votes_monthly, votes_alltime,
                        pending_downvotes, approved_downvotes, deltas_ever,
                        deltas_since, approvals>>
       ELSE LET complaint == pending_downvotes[cid]
                vendor == complaint[1]
            IN
            /\ ApproveRoom(vendor)
            /\ votes_weekly' = TallyDown(votes_weekly, vendor)
            /\ IF outcome = "KeyErrorMonthly"
               THEN UNCHANGED <<votes_monthly, votes_alltime, pending_downvotes,
                                approved_downvotes, deltas_ever, deltas_since,
                                approvals>>
               ELSE /\ votes_monthly' =
                           MonthlyAdd(votes_monthly, vendor,
                                      ApprovalStamp(complaint), -1)
                    /\ IF outcome = "KeyErrorAlltime"
                       THEN UNCHANGED <<votes_alltime, pending_downvotes,
                                        approved_downvotes, deltas_ever,
                                        deltas_since, approvals>>
                       ELSE /\ votes_alltime' = TallyDown(votes_alltime, vendor)
                            /\ approved_downvotes' =
                                   Approved(approved_downvotes, cid, complaint)
                            /\ pending_downvotes' = Pop(pending_downvotes, cid)
                            /\ deltas_ever' =
                                   [deltas_ever EXCEPT ![vendor] = @ - 1]
                            /\ deltas_since' =
                                   [deltas_since EXCEPT ![vendor] = @ - 1]
                            /\ approvals' =
                                   Put(approvals, cid, Get(approvals, cid, 0) + 1)
    /\ refused' = IF outcome = "NotAuthorized"
                  THEN refused \cup {outcome} ELSE refused
    /\ UNCHANGED <<now, plain, trusted_sellers, voters, downvoters,
                   vote_history, last_vote_attempt, last_downvote_attempt,
                   complaint_id, user_points, accepted_at, since_reset,
                   issued_ids>>
    /\ UNCHANGED <<chatVars, wagerVars>>
    /\ UNCHANGED <<boardVars, pollVars>>

(***************************************************************************)
(* addseller, removeseller, pridetitaskus: the admin's roster and tally    *)
(* commands                                                                *)
(***************************************************************************)
AdminOutcome(actor, chat_id) ==
    IF actor # ADMIN_CHAT_ID THEN "NotAuthorized"
    ELSE IF ~is_allowed_group(chat_id) /\ chat_id # actor THEN "WrongChat"
    ELSE "Admitted"

\* a roster check that never finds the seller
AlreadyListedNever(vendor) == FALSE
\* if vendor in trusted_sellers
AlreadyListed(vendor) == InList(vendor, trusted_sellers)

addseller(actor, chat_id, arg) ==
    LET vendor == Normalize(arg) IN
    /\ IF AdminOutcome(actor, chat_id) = "Admitted"
          /\ ~AlreadyListed(vendor)
       THEN trusted_sellers' = Append(trusted_sellers, vendor)
       ELSE UNCHANGED trusted_sellers
    /\ UNCHANGED <<now, plain, votes_weekly, votes_monthly, votes_alltime,
                   voters, downvoters, pending_downvotes, approved_downvotes,
                   vote_history, last_vote_attempt, last_downvote_attempt,
                   complaint_id, user_points>>
    /\ UNCHANGED <<ghostVars, chatVars, wagerVars>>
    /\ UNCHANGED <<boardVars, pollVars>>

\* a removal that keeps the tallies
DropTallyKept(store, vendor) == store
\* votes_weekly.pop(vendor, None) and the same for the other two tallies
DropTally(store, vendor) == Pop(store, vendor)

removeseller(actor, chat_id, arg) ==
    LET vendor == Normalize(arg) IN
    /\ IF AdminOutcome(actor, chat_id) = "Admitted"
          /\ InList(vendor, trusted_sellers)
       THEN /\ trusted_sellers' = ListRemove(trusted_sellers, vendor)
            /\ votes_weekly' = DropTally(votes_weekly, vendor)
            /\ votes_monthly' = DropTally(votes_monthly, vendor)
            /\ votes_alltime' = DropTally(votes_alltime, vendor)
            /\ deltas_since' = [deltas_since EXCEPT ![vendor] = 0]
       ELSE UNCHANGED <<trusted_sellers, votes_weekly, votes_monthly,
                        votes_alltime, deltas_since>>
    /\ UNCHANGED <<now, plain, voters, downvoters, pending_downvotes,
                   approved_downvotes, vote_history, last_vote_attempt,
                   last_downvote_attempt, complaint_id, user_points,
                   deltas_ever, accepted_at, since_reset, issued_ids,
                   approvals>>
    /\ UNCHANGED <<chatVars, wagerVars, refused>>
    /\ UNCHANGED <<boardVars, pollVars>>

\* votes_alltime[seller] += amount
Adjusted(store, seller, amount) ==
    Put(store, seller, Get(store, seller, 0) + amount)

pridetitaskus(actor, arg, amount) ==
    LET seller == Normalize(arg)
        total == Get(votes_alltime, seller, 0) + amount
    IN
    /\ IF /\ actor = ADMIN_CHAT_ID
          /\ InList(seller, trusted_sellers)
          /\ ~Raises("votes_alltime", votes_alltime, seller)
       THEN /\ total \in (-MaxTally)..MaxTally
            /\ votes_alltime' = Adjusted(votes_alltime, seller, amount)
            /\ deltas_since' = [deltas_since EXCEPT ![seller] = @ + amount]
       ELSE UNCHANGED <<votes_alltime, deltas_since>>
    /\ UNCHANGED <<now, plain, trusted_sellers, votes_weekly, votes_monthly,
                   voters, downvoters, pending_downvotes, approved_downvotes,
                   vote_history, last_vote_attempt, last_downvote_attempt,
                   complaint_id, user_points, deltas_ever, accepted_at,
                   since_reset, issued_ids, approvals>>
    /\ UNCHANGED <<chatVars, wagerVars, refused>>
    /\ UNCHANGED <<boardVars, pollVars>>

(***************************************************************************)
(* sellerinfo: reads the three tallies of a registered seller; a read of a *)
(* missing key creates it in a defaultdict and raises in a plain dict      *)
(***************************************************************************)
sellerinfo(chat_id, arg) ==
    LET vendor == Normalize(arg)
        admitted == is_allowed_group(chat_id) /\ InList(vendor, trusted_sellers)
        m == admitted /\ ~Raises("votes_monthly", votes_monthly, vendor)
        w == m /\ ~Raises("votes_weekly", votes_weekly, vendor)
        a == w /\ ~Raises("votes_alltime", votes_alltime, vendor)
    IN
    /\ votes_monthly' =
           IF m THEN SetDefault(votes_monthly, vendor, << >>) ELSE votes_monthly
    /\ votes_weekly' =
           IF w THEN SetDefault(votes_weekly, vendor, 0) ELSE votes_weekly
    /\ votes_alltime' =
           IF a THEN SetDefault(votes_alltime, vendor, 0) ELSE votes_alltime
    /\ UNCHANGED <<now, plain, trusted_sellers, voters, downvoters,
                   pending_downvotes, approved_downvotes, vote_history,
                   last_vote_attempt, last_downvote_attempt, complaint_id,
                   user_points>>
    /\ UNCHANGED <<ghostVars, chatVars, wagerVars>>
    /\ UNCHANGED <<boardVars, pollVars>>

(***************************************************************************)
(* reset_votes: the weekly job of Monday 00:00                             *)
(***************************************************************************)
\* a reset that keeps the counter
ResetComplaintIdKept == complaint_id
\* complaint_id = 0
ResetComplaintId == 0
\* last_vote_attempt.clear()
ClearedStamps == EmptyDict

reset_votes ==
    /\ votes_weekly' = EmptyDict
    /\ voters' = {}
    /\ downvoters' = {}
    /\ pending_downvotes' = EmptyDict
    /\ last_vote_attempt' = ClearedStamps
    /\ complaint_id' = ResetComplaintId
    /\ since_reset' = {}
    /\ UNCHANGED <<now, plain, trusted_sellers, votes_monthly, votes_alltime,
                   approved_downvotes, vote_history, last_downvote_attempt,
                   user_points, deltas_ever, deltas_since, accepted_at,
                   issued_ids, approvals>>
    /\ UNCHANGED <<chatVars, wagerVars, refused>>
    /\ UNCHANGED <<boardVars, pollVars>>

(***************************************************************************)
(* Updates are handled one at a time: while a handler is suspended at an   *)
(* await no other update handler starts, but the job queue's callbacks run.*)
(***************************************************************************)
Idle == handler.at = "idle"

(***************************************************************************)
(* handle_message: the chat counters, the streak and the username directory*)
(***************************************************************************)
\* from_user.username of the modelled users
Username(u) == IF u = 1 THEN <<"A", "l">> ELSE <<"b", "o">>
LowerChar(c) == IF c = "A" THEN "a" ELSE IF c = "B" THEN "b" ELSE c
\* str.lower()
Lower(str) == [i \in DOMAIN str |-> LowerChar(str[i])]
\* f"@{username}"
At(str) == <<"@">> \o str
\* datetime.date()
Date(t) == t \div Day

\* a streak that every message starts over
StreakedAnew(streaks, user_id, last_day, today, yesterday) ==
    Put(streaks, user_id, 1)
\* lines 786-789: the streak rule
Streaked(streaks, user_id, last_day, today, yesterday) ==
    IF last_day = yesterday
    THEN Put(streaks, user_id, Get(streaks, user_id, 0) + 1)
    ELSE IF last_day # today
    THEN Put(streaks, user_id, 1)
    ELSE streaks

handle_message(user_id, chat_id, text) ==
    /\ Idle
    /\ award.at # "loop"
    /\ UNCHANGED <<award, award_ran>>
    /\ IF ~is_allowed_group(chat_id) \/ Head(text) = "/"
       THEN UNCHANGED <<username_to_id, daily_messages, weekly_messages,
                        alltime_messages, chat_streaks, last_chat_day,
                        daily_order, sent>>
       ELSE LET today == Date(now)
                yesterday == Date(now - Day)
                last_day == Date(Get(last_chat_day, user_id, DatetimeMin))
                mine == Get(daily_messages, user_id, EmptyDict)
            IN
            /\ sent[user_id] < MaxMessages
            /\ sent' = [sent EXCEPT ![user_id] = @ + 1]
            /\ daily_order' =
                   IF user_id \in DOMAIN daily_messages
                   THEN daily_order
                   ELSE Append(daily_order, user_id)
            /\ username_to_id' =
                   Put(username_to_id, At(Lower(Username(user_id))), user_id)
            /\ daily_messages' =
                   Put(daily_messages, user_id,
                       Put(mine, today, Get(mine, today, 0) + 1))
            /\ weekly_messages' =
                   Put(weekly_messages, user_id,
                       Get(weekly_messages, user_id, 0) + 1)
            /\ alltime_messages' =
                   Put(alltime_messages, user_id,
                       Get(alltime_messages, user_id, 0) + 1)
            /\ IF Raises("last_chat_day", last_chat_day, user_id)
                  \/ (last_day = yesterday
                      /\ Raises("chat_streaks", chat_streaks, user_id))
               THEN UNCHANGED <<chat_streaks, last_chat_day>>
               ELSE /\ chat_streaks' =
                          Streaked(chat_streaks, user_id, last_day, today,
                                   yesterday)
                    /\ last_chat_day' = Put(last_chat_day, user_id, now)
    /\ UNCHANGED <<ledgerVars, ghostVars, wagerVars>>
    /\ UNCHANGED <<boardVars, pollVars>>

(***************************************************************************)
(* addpoints: the admin credits a user                                     *)
(***************************************************************************)
addpoints(actor, amount, target_id) ==
    /\ Idle
    /\ IF actor = ADMIN_CHAT_ID /\ ~Raises("user_points", user_points, target_id)
       THEN /\ Get(user_points, target_id, 0) + amount <= MaxPoints
            /\ user_points' =
                   Put(user_points, target_id,
                       Get(user_points, target_id, 0) + amount)
       ELSE UNCHANGED user_points
    /\ UNCHANGED <<now, plain, trusted_sellers, votes_weekly, votes_monthly,
                   votes_alltime, voters, downvoters, pending_downvotes,
                   approved_downvotes, vote_history, last_vote_attempt,
                   last_downvote_attempt, complaint_id>>
    /\ UNCHANGED <<ghostVars, chatVars, wagerVars>>
    /\ UNCHANGED <<boardVars, pollVars>>

(***************************************************************************)
(* coinflip: propose a wager                                               *)
(***************************************************************************)
\* timedelta(minutes=5) and the delay of the expire_challenge job
ChallengeSeconds == 300

\* user_points after the read user_points[k] of a defaultdict
Touched(points, k) == SetDefault(points, k, 0)
\* target_id = username_to_id.get(opponent.lower(), None)
TargetOf(opponent) == Get(username_to_id, Lower(opponent), NoTarget)
\* not target_id or opponent == initiator_username
InvalidTarget(opponent, initiator_username) ==
    TargetOf(opponent) = NoTarget \/ opponent = initiator_username

CoinflipOutcome(initiator_id, chat_id, amount, opponent) ==
    IF ~is_allowed_group(chat_id) THEN "NotAllowedGroup"
    ELSE IF amount <= 0 THEN "InvalidAmount"
    ELSE IF Raises("user_points", user_points, initiator_id) THEN "KeyError"
    ELSE IF Get(user_points, initiator_id, 0) < amount THEN "InvalidAmount"
    ELSE IF InvalidTarget(opponent, At(Username(initiator_id)))
         THEN "InvalidTarget"
    ELSE IF Raises("user_points", user_points, TargetOf(opponent))
         THEN "KeyErrorTarget"
    ELSE IF Get(user_points, TargetOf(opponent), 0) < amount THEN "TargetShort"
    ELSE "Stored"

coinflip(initiator_id, chat_id, amount, opponent) ==
    LET outcome == CoinflipOutcome(initiator_id, chat_id, amount, opponent)
        target_id == TargetOf(opponent)
        inst == challenge_no + 1
    IN
    /\ Idle
    /\ user_points' =
           IF outcome \in {"NotAllowedGroup", "KeyError", "KeyErrorTarget"}
              \/ (outcome = "InvalidAmount" /\ amount <= 0)
           THEN user_points
           ELSE IF outcome \in {"InvalidAmount", "InvalidTarget"}
           THEN Touched(user_points, initiator_id)
           ELSE Touched(Touched(user_points, initiator_id), target_id)
    /\ IF outcome = "Stored"
       THEN /\ challenge_no < MaxChallenges
            /\ coinflip_challenges' =
                   Put(coinflip_challenges, target_id,
                       <<initiator_id, amount, now, At(Username(initiator_id)),
                         opponent, chat_id>>)
            /\ jobs' = jobs \cup {[target |-> target_id,
                                   due |-> now + ChallengeSeconds,
                                   inst |-> inst]}
            /\ challenge_no' = inst
            /\ instance_of' = Put(instance_of, target_id, inst)
       ELSE UNCHANGED <<coinflip_challenges, jobs, challenge_no, instance_of>>
    /\ UNCHANGED <<now, plain, trusted_sellers, votes_weekly, votes_monthly,
                   votes_alltime, voters, downvoters, pending_downvotes,
                   approved_downvotes, vote_history, last_vote_attempt,
                   last_downvote_attempt, complaint_id>>
    /\ UNCHANGED <<ghostVars, chatVars, handler, accepted_inst, expired_inst>>
    /\ UNCHANGED <<boardVars, pollVars>>

(***************************************************************************)
(* accept_coinflip, in the three parts its two awaits cut it into          *)
(***************************************************************************)
\* an acceptance that checks neither the age nor the chat of the challenge
AcceptOutcomeUnchecked(user_id, chat_id) ==
    IF user_id \notin DOMAIN coinflip_challenges THEN "NoActiveChallenge"
    ELSE "Flip"
AcceptOutcome(user_id, chat_id) ==
    IF user_id \notin DOMAIN coinflip_challenges THEN "NoActiveChallenge"
    ELSE IF now - coinflip_challenges[user_id][3] > ChallengeSeconds THEN "Expired"
    ELSE IF chat_id # coinflip_challenges[user_id][6] THEN "WrongChat"
    ELSE "Flip"

\* lines 879-894: the checks, random.choice, then await send_sticker
accept_coinflip(user_id, chat_id) ==
    LET outcome == AcceptOutcome(user_id, chat_id) IN
    /\ Idle
    /\ IF outcome = "NoActiveChallenge"
       THEN UNCHANGED <<coinflip_challenges, instance_of, handler>>
       ELSE IF outcome \in {"Expired", "WrongChat"}
       THEN /\ coinflip_challenges' = Pop(coinflip_challenges, user_id)
            /\ instance_of' = Pop(instance_of, user_id)
            /\ UNCHANGED handler
       ELSE LET challenge == coinflip_challenges[user_id] IN
            /\ \E result \in {challenge[1], user_id} :
                   handler' = [at |-> "send_sticker",
                               user_id |-> user_id,
                               initiator_id |-> challenge[1],
                               amount |-> challenge[2],
                               result |-> result,
                               inst |-> instance_of[user_id]]
            /\ UNCHANGED <<coinflip_challenges, instance_of>>
    /\ UNCHANGED <<ledgerVars, ghostVars, chatVars, jobs, challenge_no,
                   accepted_inst, expired_inst>>
    /\ UNCHANGED <<boardVars, pollVars>>

\* user_points[winner] += amount; user_points[loser] -= amount
Transferred(points, winner, loser, amount) ==
    LET credited == Put(points, winner, points[winner] + amount)
    IN  Put(credited, loser, credited[loser] - amount)

\* lines 895-902: the transfer, then await reply_text
accept_transfer ==
    /\ handler.at = "send_sticker"
    /\ user_points' =
           IF handler.result = handler.initiator_id
           THEN Transferred(user_points, handler.initiator_id, handler.user_id,
                            handler.amount)
           ELSE Transferred(user_points, handler.user_id, handler.initiator_id,
                            handler.amount)
    /\ handler' = [handler EXCEPT !.at = "reply_text"]
    /\ accepted_inst' = accepted_inst \cup {handler.inst}
    /\ UNCHANGED <<now, plain, trusted_sellers, votes_weekly, votes_monthly,
                   votes_alltime, voters, downvoters, pending_downvotes,
                   approved_downvotes, vote_history, last_vote_attempt,
                   last_downvote_attempt, complaint_id>>
    /\ UNCHANGED <<ghostVars, chatVars, coinflip_challenges, jobs,
                   challenge_no, instance_of, expired_inst>>
    /\ UNCHANGED <<boardVars, pollVars>>

\* lines 903-905: del coinflip_challenges[user_id], which raises KeyError
\* when the challenge is gone
accept_end ==
    /\ handler.at = "reply_text"
    /\ coinflip_challenges' = Pop(coinflip_challenges, handler.user_id)
    /\ instance_of' = Pop(instance_of, handler.user_id)
    /\ handler' = NoHandler
    /\ UNCHANGED <<ledgerVars, ghostVars, chatVars, jobs, challenge_no,
                   accepted_inst, expired_inst>>
    /\ UNCHANGED <<boardVars, pollVars>>

(***************************************************************************)
(* expire_challenge: the job run_once(expire_challenge, 300) scheduled     *)
(***************************************************************************)
\* an expiry that hands the stake to the target
expire_challenge_paying(job) ==
    /\ job \in jobs
    /\ now >= job.due
    /\ jobs' = jobs \ {job}
    /\ user_points' = Put(user_points, job.target,
                          Get(user_points, job.target, 0) + 1)
    /\ UNCHANGED <<now, plain, trusted_sellers, votes_weekly, votes_monthly,
                   votes_alltime, voters, downvoters, pending_downvotes,
                   approved_downvotes, vote_history, last_vote_attempt,
                   last_downvote_attempt, complaint_id>>
    /\ UNCHANGED <<ghostVars, chatVars, coinflip_challenges, handler,
                   challenge_no, instance_of, accepted_inst, expired_inst>>
    /\ UNCHANGED <<boardVars, pollVars>>
\* a callback that leaves the challenge where it is
expire_challenge_keeping(job) ==
    /\ job \in jobs
    /\ now >= job.due
    /\ jobs' = jobs \ {job}
    /\ UNCHANGED <<ledgerVars, ghostVars, chatVars, coinflip_challenges,
                   handler, challenge_no, instance_of, accepted_inst,
                   expired_inst>>
    /\ UNCHANGED <<boardVars, pollVars>>
expire_challenge(job) ==
    /\ job \in jobs
    /\ now >= job.due
    /\ jobs' = jobs \ {job}
    /\ IF job.target \in DOMAIN coinflip_challenges
       THEN /\ coinflip_challenges' = Pop(coinflip_challenges, job.target)
            /\ expired_inst' = expired_inst \cup {instance_of[job.target]}
            /\ instance_of' = Pop(instance_of, job.target)
       ELSE UNCHANGED <<coinflip_challenges, expired_inst, instance_of>>
    /\ UNCHANGED <<ledgerVars, ghostVars, chatVars, handler, challenge_no,
                   accepted_inst>>
    /\ UNCHANGED <<boardVars, pollVars>>

(***************************************************************************)
(* award_daily_points: the job run_daily starts at 00:00.  Its loop over   *)
(* daily_messages awaits send_message after crediting a user whose         *)
(* username the directory holds; between two awaits the loop runs without  *)
(* interruption (award.at = "loop").                                       *)
(***************************************************************************)
Min(a, b) == IF a <= b THEN a ELSE b
\* chat_points + streak_bonus
AwardPoints(msg_count, streak) == Min(3, msg_count \div 50) + (streak \div 3)
\* daily_messages[user_id].get(yesterday, 0)
MsgCount(user_id, yesterday) ==
    Get(Get(daily_messages, user_id, EmptyDict), yesterday, 0)
\* next(k for k, v in username_to_id.items() if v == user_id) finds a name
HasUsername(user_id) ==
    \E k \in DOMAIN username_to_id : username_to_id[k] = user_id

\* the job queue starts the job, once per calendar day
award_daily_points ==
    /\ award.at = "idle"
    /\ award_ran # Date(now)
    /\ award_ran' = Date(now)
    /\ award' = [at |-> "loop", todo |-> daily_order,
                 size |-> Len(daily_order), yesterday |-> Date(now) - 1]
    /\ UNCHANGED <<username_to_id, daily_messages, weekly_messages,
                   alltime_messages, chat_streaks, last_chat_day, daily_order,
                   sent>>
    /\ UNCHANGED <<ledgerVars, ghostVars, wagerVars>>
    /\ UNCHANGED <<boardVars, pollVars>>

AwardOutcome ==
    IF Len(daily_order) # award.size THEN "RuntimeError"
    ELSE IF award.todo = << >> THEN "Done"
    ELSE IF MsgCount(Head(award.todo), award.yesterday) < 50 THEN "Skipped"
    ELSE IF Raises("chat_streaks", chat_streaks, Head(award.todo))
            \/ Raises("user_points", user_points, Head(award.todo))
         THEN "KeyError"
    ELSE "Credited"

\* lines 798-819: one pass of the loop body
award_user ==
    LET outcome == AwardOutcome
        user_id == Head(award.todo)
        streaks == SetDefault(chat_streaks, user_id, 0)
    IN
    /\ award.at \in {"loop", "send_message"}
    /\ outcome \in {"Skipped", "KeyError", "Credited"}
       \/ (outcome = "RuntimeError" /\ award.todo # << >>)
    /\ IF outcome \in {"RuntimeError", "KeyError"}
       THEN /\ award' = NoAward
            /\ UNCHANGED <<chat_streaks, user_points>>
       ELSE IF outcome = "Skipped"
       THEN /\ award' = [award EXCEPT !.at = "loop", !.todo = Tail(@)]
            /\ UNCHANGED <<chat_streaks, user_points>>
       ELSE /\ chat_streaks' = streaks
            /\ user_points' =
                   Put(user_points, user_id,
                       Get(user_points, user_id, 0)
                       + AwardPoints(MsgCount(user_id, award.yesterday),
                                     streaks[user_id]))
            /\ award' = [award EXCEPT
                           !.at = IF HasUsername(user_id)
                                  THEN "send_message" ELSE "loop",
                           !.todo = Tail(@)]
    /\ UNCHANGED <<now, plain, trusted_sellers, votes_weekly, votes_monthly,
                   votes_alltime, voters, downvoters, pending_downvotes,
                   approved_downvotes, vote_history, last_vote_attempt,
                   last_downvote_attempt, complaint_id>>
    /\ UNCHANGED <<username_to_id, daily_messages, weekly_messages,
                   alltime_messages, last_chat_day, daily_order, award_ran,
                   sent>>
    /\ UNCHANGED <<ghostVars, wagerVars>>
    /\ UNCHANGED <<boardVars, pollVars>>

\* a clear that keeps the counters
ClearedDailyKept == daily_messages
\* daily_messages.clear()
ClearedDaily == EmptyDict

\* lines 821-822: the loop is exhausted; daily_messages.clear() and the save
award_end ==
    /\ award.at \in {"loop", "send_message"}
    /\ award.todo = << >>
    /\ award' = NoAward
    /\ IF AwardOutcome = "RuntimeError"
       THEN UNCHANGED <<daily_messages, daily_order>>
       ELSE /\ daily_messages' = ClearedDaily
            /\ daily_order' = << >>
    /\ UNCHANGED <<username_to_id, weekly_messages, alltime_messages,
                   chat_streaks, last_chat_day, award_ran, sent>>
    /\ UNCHANGED <<ledgerVars, ghostVars, wagerVars>>
    /\ UNCHANGED <<boardVars, pollVars>>

\* the clock of the chat scenarios: midnight passes
TickDay ==
    /\ award.at # "loop"
    /\ \E t \in ChatTimes : t > now /\ now' = t
    /\ UNCHANGED <<plain, trusted_sellers, votes_weekly, votes_monthly,
                   votes_alltime, voters, downvoters, pending_downvotes,
                   approved_downvotes, vote_history, last_vote_attempt,
                   last_downvote_attempt, complaint_id, user_points>>
    /\ UNCHANGED <<ghostVars, chatVars, wagerVars>>
    /\ UNCHANGED <<boardVars, pollVars>>

NextAward ==
    \/ TickDay
    \/ \E u \in Users, c \in Chats, t \in Texts : handle_message(u, c, t)
    \/ award_daily_points
    \/ award_user
    \/ award_end

\* the morning after a day of chatting: each user wrote none or one of
\* AwardCounts messages on day 0, the ledger is the supplied defaultdict or a
\* snapshot without the modelled users
InitAward ==
    /\ now = Day
    /\ plain \in {{}, {"user_points"}}
    /\ InitStores
    /\ InitBoard
    /\ sent = [u \in Users |-> 0]
    /\ \E chatters \in SUBSET Users :
         /\ daily_order \in {o \in UNION {[1..n -> chatters] : n \in 0..2} :
                                /\ Len(o) = Cardinality(chatters)
                                /\ \A u \in chatters : \E i \in DOMAIN o : o[i] = u}
         /\ \E counts \in [chatters -> AwardCounts],
               streaks \in [chatters -> AwardStreaks] :
              /\ daily_messages = [u \in chatters |-> [d \in {0} |-> counts[u]]]
              /\ weekly_messages = counts
              /\ alltime_messages = counts
              /\ chat_streaks = streaks
         /\ last_chat_day = [u \in chatters |-> 0]
         /\ username_to_id =
                [n \in {At(Lower(Username(u))) : u \in chatters} |->
                    CHOOSE u \in chatters : At(Lower(Username(u))) = n]
SpecAward == InitAward /\ [][NextAward]_vars

\* the clock of the wager scenarios, which only moves forward
TickWager ==
    /\ \E t \in WagerTimes : t > now /\ now' = t
    /\ UNCHANGED <<plain, trusted_sellers, votes_weekly, votes_monthly,
                   votes_alltime, voters, downvoters, pending_downvotes,
                   approved_downvotes, vote_history, last_vote_attempt,
                   last_downvote_attempt, complaint_id, user_points>>
    /\ UNCHANGED <<ghostVars, chatVars, wagerVars>>
    /\ UNCHANGED <<boardVars, pollVars>>

NextWager ==
    \/ TickWager
    \/ \E u \in Users, c \in Chats, t \in Texts : handle_message(u, c, t)
    \/ \E a \in Actors, n \in CreditAmounts, u \in Users : addpoints(a, n, u)
    \/ \E u \in Users, c \in Chats, n \in WagerAmounts, o \in Opponents :
           coinflip(u, c, n, o)
    \/ \E u \in Users, c \in Chats : accept_coinflip(u, c)
    \/ accept_transfer
    \/ accept_end
    \/ \E job \in jobs : expire_challenge(job)

InitWager == Init /\ now = 0 /\ plain = {}
SpecWager == InitWager /\ [][NextWager]_vars

\* the vote ledger and the complaint workflow under the clock
Next ==
    \/ Tick
    \/ \E u \in Users, s \in Tags : handle_vote_button(u, s)
    \/ \E u \in Users, c \in Chats, a \in VendorArgs, r \in Reasons :
           nepatiko(u, c, a, r)
    \/ \E a \in Actors, c \in ApproveChats, cid \in ComplaintArgs :
           approve(a, c, cid)
    \/ reset_votes

Spec == Init /\ [][Next]_vars

\* every command that changes a tally, the roster or the complaint stores,
\* with the clock standing still
NextTally ==
    \/ \E u \in Users, s \in Tags : handle_vote_button(u, s)
    \/ \E u \in Users, a \in Tags :
           nepatiko(u, GROUP_CHAT_ID, a, "late delivery")
    \/ \E cid \in ComplaintArgs : approve(ADMIN_CHAT_ID, GROUP_CHAT_ID, cid)
    \/ \E a \in Actors, v \in VendorArgs : addseller(a, ADMIN_CHAT_ID, v)
    \/ \E a \in Actors, v \in VendorArgs : removeseller(a, ADMIN_CHAT_ID, v)
    \/ \E a \in Actors, v \in Tags, n \in AdjustAmounts : pridetitaskus(a, v, n)
    \/ reset_votes

InitTally == Init /\ now = 0 /\ plain \in {{}, {"votes_alltime"}}
SpecTally == InitTally /\ [][NextTally]_vars

\* the complaint workflow alone: filing, approval, the weekly reset
NextComplaint ==
    \/ Tick
    \/ \E u \in Users, c \in Chats, a \in VendorArgs, r \in Reasons :
           nepatiko(u, c, a, r)
    \/ \E a \in Actors, c \in ApproveChats, cid \in ComplaintArgs :
           approve(a, c, cid)
    \/ reset_votes

SpecComplaint == Init /\ [][NextComplaint]_vars

\* the seller card read next to votes and roster changes
NextInfo ==
    \/ \E u \in Users, s \in Tags : handle_vote_button(u, s)
    \/ \E v \in VendorArgs : addseller(ADMIN_CHAT_ID, ADMIN_CHAT_ID, v)
    \/ \E v \in VendorArgs : removeseller(ADMIN_CHAT_ID, ADMIN_CHAT_ID, v)
    \/ \E c \in Chats, v \in VendorArgs : sellerinfo(c, v)

InitInfo == Init /\ now = 0 /\ plain \in {{}, {"votes_alltime"}}
SpecInfo == InitInfo /\ [][NextInfo]_vars

(***************************************************************************)
(* C1.  allTime against the deltas applied                                 *)
(***************************************************************************)
AllTime(t) == Get(votes_alltime, t, 0)

\* C1 as stated: in every reachable state the allTime tally of every seller
\* equals the signed sum of the vote deltas ever tallied for that seller (+1
\* per upvote, -1 per approved complaint).
C1_AllTimeIsSumOfDeltasEver == \A t \in Tags : AllTime(t) = deltas_ever[t]

\* C1 amended: in every reachable state the allTime tally of every seller
\* equals the signed sum of the vote deltas tallied for it and the admin
\* adjustments made to it since its tallies were last deleted by a seller
\* removal; a seller without an allTime entry counts as 0.
C1_AllTimeIsSumSinceRemoval == \A t \in Tags : AllTime(t) = deltas_since[t]

\* a seller was voted for, removed, registered again and adjusted or voted for
C1_Witness ==
    \E t \in Tags : /\ t \in DOMAIN votes_alltime
                    /\ votes_alltime[t] # 0
                    /\ deltas_ever[t] # 0
                    /\ deltas_ever[t] # deltas_since[t]

(***************************************************************************)
(* Helpers of the claims about single handlers                             *)
(***************************************************************************)
\* dict new agrees with dict old on every key but k
SameButAt(new, old, k) ==
    /\ DOMAIN new \ {k} = DOMAIN old \ {k}
    /\ \A x \in DOMAIN old \ {k} : new[x] = old[x]
Registered(t) == InList(t, trusted_sellers)

(***************************************************************************)
(* C2.  The vote cooldown                                                  *)
(***************************************************************************)
InCooldownWindow(u) ==
    /\ u \in DOMAIN accepted_at
    /\ now >= accepted_at[u]
    /\ now < accepted_at[u] + Week

\* C2 as stated: once an upvote by U was accepted at T, every attempt of U at
\* a time in [T, T + 7 days) for a registered seller is rejected with
\* CooldownActive, whatever ran in between, the weekly reset included.
C2_CooldownWhateverRan ==
    \A u \in Users, s \in Tags :
        (InCooldownWindow(u) /\ Registered(s)) =>
            VoteOutcome(u, s) = "CooldownActive"

\* C2 amended: once an upvote by U was accepted at T and no weekly vote reset
\* has run since, every attempt of U at a time in [T, T + 7 days) for a
\* registered seller is rejected with CooldownActive, and a rejected attempt
\* changes no tally, no balance and no stamp.
C2_CooldownUntilReset ==
    /\ [](\A u \in Users, s \in Tags :
            (u \in since_reset /\ InCooldownWindow(u) /\ Registered(s)) =>
                VoteOutcome(u, s) = "CooldownActive")
    /\ [][\A u \in Users, s \in Tags :
            (VoteOutcome(u, s) = "CooldownActive" /\ handle_vote_button(u, s))
                => UNCHANGED <<votes_weekly, votes_monthly, votes_alltime,
                               vote_history, user_points, last_vote_attempt>>]_vars

\* three days after an accepted upvote, with no reset in between
C2_Witness ==
    \E u \in Users :
        /\ u \in since_reset
        /\ accepted_at[u] = 0
        /\ now = 3 * Day
        /\ VoteOutcome(u, Tag("Seller1")) = "CooldownActive"

(***************************************************************************)
(* C3.  A challenge instance is resolved by its acceptance or its expiry   *)
(***************************************************************************)
\* C3 as stated: for every challenge instance an acceptance and the expiry
\* callback never both take effect (points transferred by the acceptance,
\* deletion and expiry notice by the callback), also when the callback fires
\* while accept_coinflip is suspended at an await.
C3_AcceptXorExpire == accepted_inst \cap expired_inst = {}

(***************************************************************************)
(* C4.  The transfer of an accepted wager                                  *)
(***************************************************************************)
\* C4 as stated: whenever an acceptance resolves a challenge of amount A
\* between initiator I and target T, exactly one of them gains A and the other
\* loses A, so balance(I) + balance(T) is the same right after as right
\* before, and no other user's balance changes.
C4_WagerZeroSum ==
    [][accept_transfer =>
         LET I == handler.initiator_id
             T == handler.user_id
             A == handler.amount
         IN
         /\ \/ /\ user_points'[I] = user_points[I] + A
               /\ user_points'[T] = user_points[T] - A
            \/ /\ user_points'[T] = user_points[T] + A
               /\ user_points'[I] = user_points[I] - A
         /\ user_points'[I] + user_points'[T] = user_points[I] + user_points[T]
         /\ \A u \in DOMAIN user_points' \ {I, T} :
                u \in DOMAIN user_points /\ user_points'[u] = user_points[u]
    ]_vars

(***************************************************************************)
(* C5, C6.  Complaint ids                                                  *)
(***************************************************************************)
\* C5 as stated: no two complaints ever filed receive the same id.
C5_IdsNeverReused ==
    \A i, j \in DOMAIN issued_ids : i # j => issued_ids[i] # issued_ids[j]

\* C6 as stated: an id is approved successfully at most once over the whole
\* run, so it decrements the tallies at most once.
C6_ApprovedAtMostOnce == \A cid \in DOMAIN approvals : approvals[cid] <= 1

(***************************************************************************)
(* C7.  An accepted upvote                                                 *)
(***************************************************************************)
\* C7: an accepted upvote of voter u for seller s adds 1 to weekly(s) and
\* allTime(s), appends (now, +1) to monthly(s) and one up event to the history
\* of s, credits u exactly 5 points and stamps lastVoteAt(u) = now; the
\* tallies of other sellers and the balances and stamps of other users stay.
C7_UpvoteEffect ==
    [][\A u \in Users, s \in Tags :
        (VoteOutcome(u, s) = "Accepted" /\ handle_vote_button(u, s)) =>
            /\ s \in DOMAIN votes_weekly' /\ s \in DOMAIN votes_alltime'
            /\ votes_weekly'[s] = Get(votes_weekly, s, 0) + 1
            /\ votes_alltime'[s] = Get(votes_alltime, s, 0) + 1
            /\ votes_monthly'[s] =
                   Append(Get(votes_monthly, s, << >>), <<now, 1>>)
            /\ vote_history'[s] =
                   Append(Get(vote_history, s, << >>),
                          <<u, "up", "Button vote", now>>)
            /\ user_points'[u] = Get(user_points, u, 0) + 5
            /\ last_vote_attempt'[u] = now
            /\ SameButAt(votes_weekly', votes_weekly, s)
            /\ SameButAt(votes_monthly', votes_monthly, s)
            /\ SameButAt(votes_alltime', votes_alltime, s)
            /\ SameButAt(vote_history', vote_history, s)
            /\ SameButAt(user_points', user_points, u)
            /\ SameButAt(last_vote_attempt', last_vote_attempt, u)
            /\ UNCHANGED last_downvote_attempt
      ]_vars

\* an upvote was just accepted while another seller has tallies and another
\* user has a balance
C7_Witness ==
    \E u \in Users, s \in Tags :
        /\ s \in DOMAIN vote_history
        /\ vote_history[s] # << >>
        /\ vote_history[s][Len(vote_history[s])] = <<u, "up", "Button vote", now>>
        /\ Get(last_vote_attempt, u, DatetimeMin) = now
        /\ Get(user_points, u, 0) = 5
        /\ \E t \in DOMAIN votes_alltime : t # s
        /\ \E v \in DOMAIN user_points : v # u /\ user_points[v] > 0

(***************************************************************************)
(* C8.  A filed complaint                                                  *)
(***************************************************************************)
\* C8: a complaint that is filed is stored as pending under the next id,
\* credits the complainant 5 points, appends a down event to the history of
\* the seller and stamps lastComplaintAt, and leaves every weekly, monthly and
\* allTime tally as it was.
C8_ComplaintEffect ==
    [][\A u \in Users, c \in Chats, a \in VendorArgs, r \in Reasons :
        (ComplaintOutcome(u, c, r) = "Filed" /\ nepatiko(u, c, a, r)) =>
            LET id == complaint_id + 1
                vendor == Normalize(a)
            IN
            /\ complaint_id' = id
            /\ id \notin DOMAIN pending_downvotes
            /\ pending_downvotes' =
                   Put(pending_downvotes, id, <<vendor, u, r, now>>)
            /\ user_points'[u] = Get(user_points, u, 0) + 5
            /\ SameButAt(user_points', user_points, u)
            /\ vote_history'[vendor] =
                   Append(Get(vote_history, vendor, << >>), <<u, "down", r, now>>)
            /\ SameButAt(vote_history', vote_history, vendor)
            /\ last_downvote_attempt'[u] = now
            /\ UNCHANGED <<votes_weekly, votes_monthly, votes_alltime,
                           approved_downvotes>>
      ]_vars

\* a complaint was just filed against a seller that has tallies
C8_Witness ==
    \E id \in DOMAIN pending_downvotes :
        LET complaint == pending_downvotes[id] IN
        /\ id = complaint_id
        /\ complaint[4] = now
        /\ Get(last_downvote_attempt, complaint[2], DatetimeMin) = now
        /\ Get(user_points, complaint[2], 0) = 5
        /\ Get(votes_alltime, complaint[1], 0) = 1
        /\ Get(votes_weekly, complaint[1], 0) = 1

(***************************************************************************)
(* C9.  An approved complaint                                              *)
(***************************************************************************)
\* C9: a successful approval of complaint cid subtracts 1 from weekly and
\* allTime of the complaint's seller, appends a -1 entry stamped with the
\* filing time to the seller's monthly sequence, moves the complaint with its
\* fields unchanged from pending to approved, and changes no other seller's
\* tallies and no point balance.
C9_ApprovalEffect ==
    [][\A a \in Actors, c \in ApproveChats, cid \in ComplaintArgs :
        (ApproveOutcome(a, c, cid) = "Approved" /\ approve(a, c, cid)) =>
            LET complaint == pending_downvotes[cid]
                vendor == complaint[1]
            IN
            /\ votes_weekly'[vendor] = Get(votes_weekly, vendor, 0) - 1
            /\ votes_alltime'[vendor] = Get(votes_alltime, vendor, 0) - 1
            /\ votes_monthly'[vendor] =
                   Append(Get(votes_monthly, vendor, << >>), <<complaint[4], -1>>)
            /\ SameButAt(votes_weekly', votes_weekly, vendor)
            /\ SameButAt(votes_monthly', votes_monthly, vendor)
            /\ SameButAt(votes_alltime', votes_alltime, vendor)
            /\ cid \notin DOMAIN pending_downvotes'
            /\ SameButAt(pending_downvotes', pending_downvotes, cid)
            /\ approved_downvotes'[cid] = complaint
            /\ SameButAt(approved_downvotes', approved_downvotes, cid)
            /\ UNCHANGED user_points
      ]_vars

\* a complaint was approved later than it was filed, against a seller with
\* votes, while another complaint is still pending
C9_Witness ==
    \E cid \in DOMAIN approved_downvotes :
        LET complaint == approved_downvotes[cid]
            vendor == complaint[1]
        IN
        /\ complaint[4] < now
        /\ vendor \in DOMAIN votes_monthly
        /\ votes_monthly[vendor] # << >>
        /\ votes_monthly[vendor][Len(votes_monthly[vendor])] = <<complaint[4], -1>>
        /\ Get(user_points, complaint[2], 0) = 5
        /\ pending_downvotes # EmptyDict

(***************************************************************************)
(* C10.  The weekly vote reset                                             *)
(***************************************************************************)
\* C10: the weekly vote reset empties the weekly tallies, the voter and
\* downvoter sets, the pending complaints and the lastVoteAt stamps and sets
\* the complaint counter to 0; the approved complaints, the monthly sequences,
\* the allTime tallies, the vote history and the balances stay as they were.
C10_ResetEffect ==
    [][reset_votes =>
        /\ votes_weekly' = EmptyDict
        /\ voters' = {}
        /\ downvoters' = {}
        /\ pending_downvotes' = EmptyDict
        /\ last_vote_attempt' = EmptyDict
        /\ complaint_id' = 0
        /\ UNCHANGED <<approved_downvotes, votes_monthly, votes_alltime,
                       vote_history, user_points>>
      ]_vars

\* the reset has run after an upvote and an approved complaint
C10_Witness ==
    /\ complaint_id = 0
    /\ issued_ids # << >>
    /\ approved_downvotes # EmptyDict
    /\ accepted_at # EmptyDict
    /\ votes_weekly = EmptyDict
    /\ last_vote_attempt = EmptyDict
    /\ pending_downvotes = EmptyDict
    /\ voters = {}
    /\ votes_alltime # EmptyDict
    /\ user_points # EmptyDict

(***************************************************************************)
(* C11.  Cooldowns after the weekly reset                                  *)
(***************************************************************************)
\* C11 as stated: right after a weekly reset no user is rejected with
\* CooldownActive because of an action taken before the reset, neither when
\* casting an upvote nor when filing a complaint.
C11_NoCooldownAfterReset ==
    [][reset_votes =>
         \A u \in Users :
             /\ \A s \in Tags : VoteOutcome(u, s)' # "CooldownActive"
             /\ \A r \in Reasons :
                    ComplaintOutcome(u, GROUP_CHAT_ID, r)' # "CooldownActive"
    ]_vars

(***************************************************************************)
(* C12, C13.  The daily award job                                          *)
(***************************************************************************)
Points(points, u) == Get(points, u, 0)

\* C12 as stated: the daily award job credits each user its loop reaches who
\* has m >= 50 messages recorded for the previous day exactly
\* min(3, m // 50) + (streak // 3) points, and credits nothing to a user with
\* fewer than 50 messages for that day; no other balance changes.
C12_AwardCredits ==
    [][(award_user /\ AwardOutcome # "RuntimeError") =>
         LET u == Head(award.todo)
             m == MsgCount(u, award.yesterday)
             streak == Get(chat_streaks, u, 0)
         IN
         /\ Points(user_points', u) - Points(user_points, u) =
                IF m >= 50
                THEN (IF m \div 50 < 3 THEN m \div 50 ELSE 3) + (streak \div 3)
                ELSE 0
         /\ \A v \in Users \ {u} : Points(user_points', v) = Points(user_points, v)
    ]_vars

\* C13: when the daily award job completes, the daily-counter store is empty
\* for every user, also for those below the 50-message threshold, and the
\* weekly and all-time message counters, the streaks and the last chat days
\* are unchanged.
C13_AwardClearsDaily ==
    [][(award_end /\ AwardOutcome = "Done") =>
         /\ daily_messages' = EmptyDict
         /\ UNCHANGED <<weekly_messages, alltime_messages, chat_streaks,
                        last_chat_day>>
    ]_vars

\* the job has completed today although a user had written only 49 messages
\* the day before, and nothing is left in the daily store
C13_Witness ==
    /\ award.at = "idle"
    /\ award_ran = Date(now)
    /\ daily_messages = EmptyDict
    /\ \E u \in DOMAIN alltime_messages :
           alltime_messages[u] = 49 /\ sent[u] = 0

(***************************************************************************)
(* C14.  The streak rule                                                   *)
(***************************************************************************)
\* C14: on each qualifying chat message of user U on day D the streak grows
\* by 1 if the last chat day of U is D-1, is set to 1 if it is neither D-1
\* nor D (or U never wrote), and is unchanged if it is D; the last chat day
\* of U becomes D; and the streak of every user who ever wrote is at least 1.
C14_StreakRule ==
    /\ [](\A u \in DOMAIN last_chat_day : Get(chat_streaks, u, 0) >= 1)
    /\ [][\A u \in Users :
            handle_message(u, GROUP_CHAT_ID, <<"labas">>) =>
              LET D == Date(now)
                  wrote == u \in DOMAIN last_chat_day
                  streak == Get(chat_streaks, u, 0)
              IN
              /\ u \in DOMAIN chat_streaks'
              /\ chat_streaks'[u] =
                     IF wrote /\ Date(last_chat_day[u]) = D - 1 THEN streak + 1
                     ELSE IF wrote /\ Date(last_chat_day[u]) = D THEN streak
                     ELSE 1
              /\ Date(last_chat_day'[u]) = D
         ]_vars

\* one user's streak grew on the day after the last chat day and stayed on a
\* second message of that day; another's started over after a day of silence
C14_Witness ==
    \E u, v \in DOMAIN chat_streaks :
        /\ u # v
        /\ sent[u] = 2 /\ chat_streaks[u] \in {3, 10}
        /\ Date(last_chat_day[u]) = 1
        /\ sent[v] = 1 /\ chat_streaks[v] = 1 /\ alltime_messages[v] >= 50

(***************************************************************************)
(* C15 - C17.  Refused acceptances, refused proposals, expiry              *)
(***************************************************************************)
\* the state of the program, without the job queue and the history variables
programVars == <<ledgerVars, username_to_id, daily_messages, weekly_messages,
                 alltime_messages, chat_streaks, last_chat_day,
                 coinflip_challenges>>

\* C15: an acceptance by a user without a pending challenge changes nothing;
\* an acceptance more than 300 s after the challenge was created, or from a
\* chat other than the one it was created in, deletes the challenge and
\* changes no point balance.
C15_RefusedAcceptance ==
    [][\A u \in Users, c \in Chats :
         accept_coinflip(u, c) =>
           IF u \notin DOMAIN coinflip_challenges
           THEN UNCHANGED <<programVars, handler, jobs>>
           ELSE (now - coinflip_challenges[u][3] > 300
                 \/ c # coinflip_challenges[u][6]) =>
                    /\ u \notin DOMAIN coinflip_challenges'
                    /\ user_points' = user_points
                    /\ handler' = handler
    ]_vars

\* a challenge was stored and is gone, and neither a transfer nor an expiry
\* callback has taken place: a refused acceptance deleted it
C15_Witness ==
    /\ challenge_no >= 1
    /\ coinflip_challenges = EmptyDict
    /\ accepted_inst = {} /\ expired_inst = {}
    /\ handler = NoHandler
    /\ \E u \in DOMAIN user_points : user_points[u] = 5

\* C16 as stated: a proposal with amount <= 0, with an initiator balance below
\* the amount, with a target that cannot be resolved or with the initiator as
\* target stores no challenge and changes no balance; hence no stored
\* challenge has its initiator as its target.
C16_RefusedProposal ==
    /\ [](\A t \in DOMAIN coinflip_challenges : coinflip_challenges[t][1] # t)
    /\ [][\A u \in Users, n \in WagerAmounts, o \in Opponents :
            (/\ coinflip(u, GROUP_CHAT_ID, n, o)
             /\ \/ n <= 0
                \/ Points(user_points, u) < n
                \/ Lower(o) \notin DOMAIN username_to_id
                \/ Get(username_to_id, Lower(o), NoTarget) = u) =>
              /\ coinflip_challenges' = coinflip_challenges
              /\ jobs' = jobs
              /\ \A v \in Users : Points(user_points', v) = Points(user_points, v)
         ]_vars

\* C17: an expiry callback changes no point balance, and when no challenge is
\* pending for its target it changes nothing at all.
C17_ExpiryTransfersNothing ==
    [][\A job \in jobs :
         expire_challenge(job) =>
           /\ user_points' = user_points
           /\ job.target \notin DOMAIN coinflip_challenges =>
                  UNCHANGED <<programVars, handler>>
    ]_vars

\* every expiry callback has run, one of them after its challenge had been
\* accepted, and none found a challenge to delete
C17_Witness ==
    /\ challenge_no >= 1
    /\ jobs = {}
    /\ accepted_inst # {}
    /\ expired_inst = {}
    /\ handler = NoHandler

(***************************************************************************)
(* C18 - C20.  Refused approvals, complaints and upvotes                   *)
(***************************************************************************)
\* C18: an approval issued by anyone but the moderator changes no state: the
\* complaint stays pending and no tally, approved complaint or balance
\* changes.
C18_OnlyModeratorApproves ==
    [][\A a \in Actors \ {ADMIN_CHAT_ID}, c \in ApproveChats,
          cid \in ComplaintArgs :
         approve(a, c, cid) => UNCHANGED programVars
    ]_vars

\* somebody else than the moderator asked for an approval, and the complaint
\* is still pending and nothing has been approved
C18_Witness ==
    /\ "NotAuthorized" \in refused
    /\ pending_downvotes # EmptyDict
    /\ approved_downvotes = EmptyDict
    /\ approvals = EmptyDict

LastComplaintAt(u) == Get(last_downvote_attempt, u, DatetimeMin)

\* C19: a complaint refused because less than 7 days have passed since the
\* complainant's last accepted complaint, or because its reason is empty,
\* leaves the state unchanged: no complaint id is consumed, nothing is added
\* to the pending complaints or the vote history, no points are credited and
\* the time of the last complaint of every user is the same.
C19_RefusedComplaint ==
    [][\A u \in Users, a \in VendorArgs, r \in Reasons :
         (/\ (now - LastComplaintAt(u) < 7 * Day \/ r = "")
          /\ nepatiko(u, GROUP_CHAT_ID, a, r)) =>
            /\ UNCHANGED <<now, plain, trusted_sellers, votes_weekly,
                           votes_monthly, votes_alltime, voters, downvoters,
                           pending_downvotes, approved_downvotes, vote_history,
                           last_vote_attempt, complaint_id, user_points>>
            /\ UNCHANGED <<username_to_id, daily_messages, weekly_messages,
                           alltime_messages, chat_streaks, last_chat_day,
                           coinflip_challenges>>
            /\ \A v \in Users : LastComplaintAt(v)' = LastComplaintAt(v)
    ]_vars

\* a complaint without a reason was refused before any complaint was filed: the
\* refused step read the complainant's stamp and filed nothing
C19_Witness ==
    /\ issued_ids = << >>
    /\ pending_downvotes = EmptyDict
    /\ vote_history = EmptyDict
    /\ \E u \in DOMAIN last_downvote_attempt :
           last_downvote_attempt[u] = DatetimeMin /\ Points(user_points, u) = 0

\* C20: an upvote for a seller that is not in the roster fails and leaves the
\* state unchanged: no tally or history entry is created for the seller, the
\* voter gains no points and the voter's cooldown stamp is not set.
C20_UnknownSellerVote ==
    [][\A u \in Users, s \in Tags :
         (handle_vote_button(u, s) /\ ~InList(s, trusted_sellers)) =>
            UNCHANGED programVars
    ]_vars

\* a vote for an unregistered seller was refused, and there is no tally, no
\* history, no balance and no cooldown stamp
C20_Witness ==
    /\ "UnknownSeller" \in refused
    /\ votes_weekly = EmptyDict /\ votes_monthly = EmptyDict
    /\ votes_alltime = EmptyDict
    /\ vote_history = EmptyDict
    /\ user_points = EmptyDict
    /\ last_vote_attempt = EmptyDict

(***************************************************************************)
(* C21.  The days reported by a vote refused for the cooldown              *)
(***************************************************************************)
\* the clock readings around the end of a cooldown
CooldownTimes == {0, 3 * Day, 6 * Day + 1, Week}
TickCooldown ==
    /\ \E t \in CooldownTimes : t # now /\ now' = t
    /\ UNCHANGED <<plain, trusted_sellers, votes_weekly, votes_monthly,
                   votes_alltime, voters, downvoters, pending_downvotes,
                   approved_downvotes, vote_history, last_vote_attempt,
                   last_downvote_attempt, complaint_id, user_points>>
    /\ UNCHANGED <<ghostVars, chatVars, wagerVars>>
    /\ UNCHANGED <<boardVars, pollVars>>

\* votes, complaints and weekly resets while the clock moves through a
\* cooldown, forth and back
NextCooldown ==
    \/ TickCooldown
    \/ \E u \in Users, s \in Tags : handle_vote_button(u, s)
    \/ \E u \in Users, r \in Reasons :
           nepatiko(u, GROUP_CHAT_ID, Tag("Seller1"), r)
    \/ reset_votes

InitCooldown == Init /\ now = 0 /\ plain = {}
SpecCooldown == InitCooldown /\ [][NextCooldown]_vars

\* the number of days in "Liko {days_left} dienų iki kito balsavimo"
VoteReply(user_id) ==
    DaysLeft(CooldownRemaining(now, Get(last_vote_attempt, user_id, DatetimeMin)))

\* C21: a vote attempted less than 7 days (and not before) the voter's last
\* accepted vote is refused for the cooldown and the refusal reports
\* max(1, floor(secondsRemaining / 86400)) days, a number in 1..7, where
\* secondsRemaining = 7 days - (now - lastVoteAt); exactly 3 days after the
\* accepted vote it reports 4; at 7 days or later the vote is not refused for
\* the cooldown.
C21_ReportedDays ==
    \A u \in DOMAIN last_vote_attempt, s \in Tags :
        LET elapsed == now - last_vote_attempt[u]
            whole == (7 * 86400 - elapsed) \div 86400
        IN  Registered(s) =>
              /\ (0 <= elapsed /\ elapsed < 7 * 86400) =>
                    /\ VoteOutcome(u, s) = "CooldownActive"
                    /\ VoteReply(u) = (IF whole >= 1 THEN whole ELSE 1)
                    /\ VoteReply(u) \in 1..7
                    /\ (elapsed = 3 * 86400 => VoteReply(u) = 4)
              /\ elapsed >= 7 * 86400 => VoteOutcome(u, s) # "CooldownActive"

\* three days after an accepted vote the refusal reports 4 days
C21_Witness ==
    \E u \in DOMAIN last_vote_attempt :
        /\ last_vote_attempt[u] = 0
        /\ now = 3 * Day
        /\ VoteOutcome(u, Tag("Seller1")) = "CooldownActive"
        /\ VoteReply(u) = 4

(***************************************************************************)
(* C22.  Approved complaints are retained                                  *)
(***************************************************************************)
\* timedelta(days=30)
Month == 30 * Day
\* downvotes_30d = sum(1 for cid, (v, _, _, ts) in approved_downvotes.items()
\*                     if v == vendor and now - ts < timedelta(days=30))
Downvotes30d(vendor) ==
    Cardinality({cid \in DOMAIN approved_downvotes :
                    /\ approved_downvotes[cid][1] = vendor
                    /\ now - approved_downvotes[cid][4] < Month})

RECURSIVE SumOver(_, _)
SumOver(d, keys) ==
    IF keys = {} THEN 0
    ELSE LET k == CHOOSE x \in keys : TRUE
         IN  d[k] + SumOver(d, keys \ {k})
\* the number of approvals that took effect so far
ApprovedEver == SumOver(approvals, DOMAIN approvals)

\* C22 as stated: the 30-day downvote counts reported for the sellers add up
\* to the number of complaints approved so far (every complaint of a run is
\* filed within the trailing 30 days), and no later operation removes or
\* replaces an approved complaint.
C22_ApprovedRetained ==
    /\ [](SumOver([t \in Tags |-> Downvotes30d(t)], Tags) = ApprovedEver)
    /\ [][\A cid \in DOMAIN approved_downvotes :
            /\ cid \in DOMAIN approved_downvotes'
            /\ approved_downvotes'[cid] = approved_downvotes[cid]]_vars

(***************************************************************************)
(* barygos and chatking: the leaderboards.  Both walk store.items() and    *)
(* sort a copy; neither looks a key up                                     *)
(***************************************************************************)
\* a walk that looks every registered seller up in the store
AfterLookups(store) ==
    [t \in DOMAIN store \cup {trusted_sellers[i] : i \in DOMAIN trusted_sellers}
        |-> Get(store, t, 0)]
\* the store after "if not store" and "for k, v in store.items()"
AfterItems(store) == store

barygos(chat_id) ==
    /\ votes_weekly' =
           IF is_allowed_group(chat_id) THEN AfterItems(votes_weekly)
           ELSE votes_weekly
    /\ votes_monthly' =
           IF is_allowed_group(chat_id) THEN AfterItems(votes_monthly)
           ELSE votes_monthly
    /\ votes_alltime' =
           IF is_allowed_group(chat_id) THEN AfterItems(votes_alltime)
           ELSE votes_alltime
    /\ UNCHANGED <<now, plain, trusted_sellers, voters, downvoters,
                   pending_downvotes, approved_downvotes, vote_history,
                   last_vote_attempt, last_downvote_attempt, complaint_id,
                   user_points>>
    /\ UNCHANGED <<ghostVars, chatVars, wagerVars, boardVars,
                   pollVars>>

chatking(chat_id) ==
    /\ alltime_messages' =
           IF is_allowed_group(chat_id) THEN AfterItems(alltime_messages)
           ELSE alltime_messages
    /\ UNCHANGED <<username_to_id, daily_messages, weekly_messages,
                   chat_streaks, last_chat_day, daily_order, award, award_ran,
                   sent>>
    /\ UNCHANGED <<ledgerVars, ghostVars, wagerVars, boardVars,
                   pollVars>>

RECURSIVE SumScores(_)
\* sum(s for _, s in votes)
SumScores(votes) ==
    IF votes = << >> THEN 0 ELSE Head(votes)[2] + SumScores(Tail(votes))
RECURSIVE SumRecent(_)
\* sum(s for ts, s in votes if now - ts < timedelta(days=30))
SumRecent(votes) ==
    IF votes = << >> THEN 0
    ELSE (IF now - Head(votes)[1] < Month THEN Head(votes)[2] ELSE 0)
             + SumRecent(Tail(votes))
\* recent votes that take the entries of exactly 30 days along
RecentVotesInclusive(votes_list) ==
    SelectSeq(votes_list, LAMBDA e : now - e[1] <= Month)
\* recent_votes = [(ts, s) for ts, s in votes_list
\*                 if now - ts < timedelta(days=30)]
RecentVotes(votes_list) == SelectSeq(votes_list, LAMBDA e : now - e[1] < Month)

\* sellerinfo: monthly_score
MonthlyScore(vendor) == SumRecent(Get(votes_monthly, vendor, << >>))
\* barygos: monthly_totals
MonthlyTotals ==
    [vendor \in DOMAIN votes_monthly |->
        SumScores(RecentVotes(votes_monthly[vendor]))]

\* the clock readings around the end of the 30-day window
MonthTimes == {0, Day, Month, Month + Day}
TickMonth ==
    /\ \E t \in MonthTimes : t # now /\ now' = t
    /\ UNCHANGED <<plain, trusted_sellers, votes_weekly, votes_monthly,
                   votes_alltime, voters, downvoters, pending_downvotes,
                   approved_downvotes, vote_history, last_vote_attempt,
                   last_downvote_attempt, complaint_id, user_points>>
    /\ UNCHANGED <<ghostVars, chatVars, wagerVars, boardVars,
                   pollVars>>

\* votes, complaints and approvals over more than a month
NextMonth ==
    \/ TickMonth
    \/ \E u \in Users, s \in Tags : handle_vote_button(u, s)
    \/ \E u \in Users, a \in Tags :
           nepatiko(u, GROUP_CHAT_ID, a, "late delivery")
    \/ \E cid \in ComplaintArgs : approve(ADMIN_CHAT_ID, GROUP_CHAT_ID, cid)

InitMonth == Init /\ now = 0 /\ plain = {}
SpecMonth == InitMonth /\ [][NextMonth]_vars

\* votes and chat messages with the boards read in between, the clock standing
\* still
NextRead ==
    \/ \E u \in Users, s \in Tags : handle_vote_button(u, s)
    \/ \E u \in Users : handle_message(u, GROUP_CHAT_ID, <<"labas">>)
    \/ \E c \in Chats : barygos(c)
    \/ \E c \in Chats : chatking(c)

InitRead == Init /\ now = 0 /\ plain = {}
SpecRead == InitRead /\ [][NextRead]_vars

(***************************************************************************)
(* C23.  The monthly score                                                 *)
(***************************************************************************)
\* C23: the monthly score of a seller is the sum of the signed deltas whose
\* timestamp is less than 30 days before now, and the seller card and the
\* monthly leaderboard compute the same value.
C23_MonthlyScore ==
    \A v \in DOMAIN votes_monthly :
        LET votes == votes_monthly[v]
            young == {i \in DOMAIN votes : now - votes[i][1] < 30 * 86400}
            score == SumOver([i \in young |-> votes[i][2]], young)
        IN  /\ MonthlyScore(v) = score
            /\ MonthlyTotals[v] = score

\* a seller has a delta that is exactly 30 days old and a younger one
C23_Witness ==
    \E v \in DOMAIN votes_monthly :
        /\ now = Month
        /\ \E i \in DOMAIN votes_monthly[v] : votes_monthly[v][i][1] = 0
        /\ \E i \in DOMAIN votes_monthly[v] : votes_monthly[v][i][1] = Day
        /\ MonthlyTotals[v] # SumScores(votes_monthly[v])

(***************************************************************************)
(* The leaderboards as functions of store.items().  An item is             *)
(* <<position in the store's iteration order, score>>.                     *)
(***************************************************************************)
\* sorted_weekly[:3]
WeeklyLimit == 3
\* sorted_monthly[:3]
MonthlyLimit == 3
\* sorted_alltime[:5]
AllTimeLimit == 5
\* sorted(alltime_messages.items(), ...)[:10]
ChatterLimit == 10
Boards == {"weekly", "monthly", "alltime", "chatters"}
LimitOf(kind) ==
    CASE kind = "weekly" -> WeeklyLimit
      [] kind = "monthly" -> MonthlyLimit
      [] kind = "alltime" -> AllTimeLimit
      [] kind = "chatters" -> ChatterLimit

\* the longest store walked with scores of four values, and the longest at all
MaxScored == 6
MaxEntries == 11
ItemLists ==
    UNION ({[1..n -> {-1, 0, 1, 2}] : n \in 0..MaxScored}
           \cup {[1..n -> {0, 1}] : n \in (MaxScored + 1)..MaxEntries})
ItemsOf(scores) == [i \in DOMAIN scores |-> <<i, scores[i]>>]

RECURSIVE InsertBeforeTies(_, _)
\* an insertion that puts an item before the items of the same score
InsertBeforeTies(e, l) ==
    IF l = << >> THEN <<e>>
    ELSE IF Head(l)[2] > e[2] THEN <<Head(l)>> \o InsertBeforeTies(e, Tail(l))
    ELSE <<e>> \o l
RECURSIVE InsertByScore(_, _)
\* e goes behind every item whose score is not smaller: sorted() is stable,
\* with reverse=True as well
InsertByScore(e, l) ==
    IF l = << >> THEN <<e>>
    ELSE IF Head(l)[2] >= e[2] THEN <<Head(l)>> \o InsertByScore(e, Tail(l))
    ELSE <<e>> \o l
RECURSIVE SortedByScore(_)
\* sorted(store.items(), key=lambda x: x[1], reverse=True)
SortedByScore(l) ==
    IF l = << >> THEN << >>
    ELSE InsertByScore(l[Len(l)], SortedByScore(SubSeq(l, 1, Len(l) - 1)))
\* sorted(...)[:limit]
Top(l, limit) == SubSeq(SortedByScore(l), 1, Min(limit, Len(l)))

\* one board of barygos
top_sellers(kind) ==
    /\ board' = [kind |-> kind, empty |-> items = << >>,
                 lines |-> Top(items, LimitOf(kind))]
    /\ UNCHANGED <<items, ledgerVars, ghostVars, chatVars, wagerVars,
                   pollVars>>
\* the board of chatking
top_chatters ==
    /\ board' = [kind |-> "chatters", empty |-> items = << >>,
                 lines |-> Top(items, LimitOf("chatters"))]
    /\ UNCHANGED <<items, ledgerVars, ghostVars, chatVars, wagerVars,
                   pollVars>>

NextBoard ==
    \/ \E kind \in Boards \ {"chatters"} : top_sellers(kind)
    \/ top_chatters

InitSorted ==
    /\ now = 0 /\ plain = {}
    /\ InitStores /\ InitChat
    /\ \E scores \in ItemLists : items = ItemsOf(scores)
    /\ board = << >>
    /\ polls = EmptyDict
SpecBoard == InitSorted /\ [][NextBoard]_vars

(***************************************************************************)
(* C24.  The order of a leaderboard                                        *)
(***************************************************************************)
\* C24: a board shows the entries of its store in non-increasing score order,
\* cut to its limit (3 weekly, 3 monthly, 5 all-time, 10 chatters), entries of
\* the same score in the store's iteration order; entries that are not shown
\* rank behind every entry shown; an entry of score zero is shown like any
\* other; the board is reported empty only when the store has no entries.
C24_BoardOrder ==
    board # << >> =>
        LET L == board.lines
            limit == CASE board.kind = "chatters" -> 10
                       [] board.kind = "alltime" -> 5
                       [] OTHER -> 3
            shown == {L[j][1] : j \in DOMAIN L}
        IN  /\ Len(L) = (IF Len(items) < limit THEN Len(items) ELSE limit)
            /\ \A j \in DOMAIN L : L[j] = items[L[j][1]]
            /\ \A j, k \in DOMAIN L :
                   j < k => \/ L[j][2] > L[k][2]
                            \/ L[j][2] = L[k][2] /\ L[j][1] < L[k][1]
            /\ \A i \in DOMAIN items \ shown, j \in DOMAIN L :
                   \/ L[j][2] > items[i][2]
                   \/ L[j][2] = items[i][2] /\ L[j][1] < i
            /\ board.empty <=> items = << >>

\* a weekly board cut to 3 of 5 entries that shows a tie in iteration order
\* and an entry of score zero
C24_Witness ==
    /\ board # << >>
    /\ board.kind = "weekly"
    /\ Len(items) = 5
    /\ Len(board.lines) = 3
    /\ board.lines[1][2] = board.lines[2][2]
    /\ board.lines[3][2] = 0

(***************************************************************************)
(* C25.  The leaderboards only read                                        *)
(***************************************************************************)
\* C25: showing the seller boards or the chatter board changes no store: no
\* key is added to a tally store, no monthly entry is removed, nothing else
\* of the program's state moves.
C25_BoardsOnlyRead ==
    [][\A c \in Chats :
         (barygos(c) \/ chatking(c)) =>
            /\ DOMAIN votes_weekly' = DOMAIN votes_weekly
            /\ DOMAIN votes_alltime' = DOMAIN votes_alltime
            /\ DOMAIN votes_monthly' = DOMAIN votes_monthly
            /\ \A v \in DOMAIN votes_monthly :
                   votes_monthly'[v] = votes_monthly[v]
            /\ UNCHANGED programVars
    ]_vars

\* the boards can be asked for while a seller has votes, another registered
\* seller has no tally yet and somebody has chatted
C25_Witness ==
    /\ votes_weekly # EmptyDict
    /\ votes_monthly # EmptyDict
    /\ \E i \in DOMAIN trusted_sellers :
           trusted_sellers[i] \notin DOMAIN votes_weekly
    /\ alltime_messages # EmptyDict

(***************************************************************************)
(* C26.  The roster                                                        *)
(***************************************************************************)
\* C26: the roster never holds a seller twice: adding a seller that is in the
\* roster is refused and leaves the roster as it is.  Removing a registered
\* seller takes it out of the roster and deletes its weekly, monthly and
\* all-time tally; its vote history and the tallies of the other sellers stay.
C26_Roster ==
    /\ [](\A i, j \in DOMAIN trusted_sellers :
             i # j => trusted_sellers[i] # trusted_sellers[j])
    /\ [][\A v \in VendorArgs :
            LET vendor == IF v[1] = "@" THEN v ELSE <<"@">> \o v
                listed == \E i \in DOMAIN trusted_sellers :
                              trusted_sellers[i] = vendor
            IN
            /\ (listed /\ addseller(ADMIN_CHAT_ID, ADMIN_CHAT_ID, v)) =>
                   UNCHANGED programVars
            /\ (listed /\ removeseller(ADMIN_CHAT_ID, ADMIN_CHAT_ID, v)) =>
                   /\ \A i \in DOMAIN trusted_sellers' :
                          trusted_sellers'[i] # vendor
                   /\ \A t \in Tags \ {vendor} :
                          Registered(t)' = Registered(t)
                   /\ vendor \notin DOMAIN votes_weekly'
                   /\ vendor \notin DOMAIN votes_monthly'
                   /\ vendor \notin DOMAIN votes_alltime'
                   /\ SameButAt(votes_weekly', votes_weekly, vendor)
                   /\ SameButAt(votes_monthly', votes_monthly, vendor)
                   /\ SameButAt(votes_alltime', votes_alltime, vendor)
                   /\ vote_history' = vote_history
       ]_vars

\* a seller with a recorded vote was removed: the history is there, the
\* tallies and the roster entry are gone
C26_Witness ==
    /\ Tag("Seller1") \in DOMAIN vote_history
    /\ ~Registered(Tag("Seller1"))
    /\ Tag("Seller1") \notin DOMAIN votes_alltime
    /\ Registered(Tag("Vendor"))
    /\ Tag("Vendor") \in DOMAIN votes_weekly

(***************************************************************************)
(* apklausa and handle_poll_button: yes/no polls                           *)
(***************************************************************************)
Questions == {<< >>, <<"ar", "verta">>}
\* the last part of the callback data; a client can send data that no button
\* of the bot carries
PollVotes == {"yes", "no", "maybe"}
\* poll_id = f"{chat_id}_{user_id}_{int(datetime.now(TIMEZONE).timestamp())}"
PollId(chat_id, user_id) == <<chat_id, user_id, now>>
PollIds == {<<c, u, t>> : c \in {GROUP_CHAT_ID}, u \in Users, t \in {0, Day}}

apklausa(user_id, chat_id, question) ==
    /\ IF is_allowed_group(chat_id) /\ question # << >>
       THEN polls' = Put(polls, PollId(chat_id, user_id),
                         [question |-> question, yes |-> 0, no |-> 0,
                          voters |-> {}])
       ELSE UNCHANGED polls
    /\ UNCHANGED <<ledgerVars, ghostVars, chatVars, wagerVars, boardVars>>

\* lines 518-526: the voter is registered, then the vote is looked at
PollAfter(poll, user_id, vote) ==
    LET added == [poll EXCEPT !.voters = @ \cup {user_id}] IN
    IF vote = "yes" THEN [added EXCEPT !.yes = @ + 1]
    ELSE IF vote = "no" THEN [added EXCEPT !.no = @ + 1]
    ELSE added

PollOutcome(user_id, poll_id, vote) ==
    IF poll_id \notin DOMAIN polls THEN "UnknownPoll"
    ELSE IF user_id \in polls[poll_id].voters THEN "AlreadyVoted"
    ELSE IF vote \notin {"yes", "no"} THEN "InvalidVote"
    ELSE "Counted"

handle_poll_button(user_id, poll_id, vote) ==
    /\ IF PollOutcome(user_id, poll_id, vote) \in {"UnknownPoll", "AlreadyVoted"}
       THEN UNCHANGED polls
       ELSE polls' = Put(polls, poll_id, PollAfter(polls[poll_id], user_id, vote))
    /\ UNCHANGED <<ledgerVars, ghostVars, chatVars, wagerVars, boardVars>>

TickPoll ==
    /\ now = 0 /\ now' = Day
    /\ UNCHANGED <<plain, trusted_sellers, votes_weekly, votes_monthly,
                   votes_alltime, voters, downvoters, pending_downvotes,
                   approved_downvotes, vote_history, last_vote_attempt,
                   last_downvote_attempt, complaint_id, user_points>>
    /\ UNCHANGED <<ghostVars, chatVars, wagerVars, boardVars, pollVars>>

NextPoll ==
    \/ TickPoll
    \/ \E u \in Users, c \in Chats, q \in Questions : apklausa(u, c, q)
    \/ \E u \in Users, id \in PollIds, v \in PollVotes :
           handle_poll_button(u, id, v)

InitPoll == Init /\ now = 0 /\ plain = {}
SpecPoll == InitPoll /\ [][NextPoll]_vars

(***************************************************************************)
(* C27.  One vote per identity and poll                                    *)
(***************************************************************************)
\* C27 as stated: in every poll yes + no is the number of identities in the
\* poll's voter set, and a vote by an identity that is in the voter set
\* changes neither count.
C27_OneVoteEach ==
    /\ [](\A id \in DOMAIN polls :
             polls[id].yes + polls[id].no = Cardinality(polls[id].voters))
    /\ [][\A u \in Users, id \in DOMAIN polls, v \in PollVotes :
            (u \in polls[id].voters /\ handle_poll_button(u, id, v)) =>
                /\ id \in DOMAIN polls'
                /\ polls'[id].yes = polls[id].yes
                /\ polls'[id].no = polls[id].no]_vars

(***************************************************************************)
(* C28.  The clock behind the last stamp                                   *)
(***************************************************************************)
\* C28: when the clock reads a time before the user's last accepted vote
\* (complaint), a vote for a registered seller (a complaint filed in the
\* group) is refused as a cooldown failure: no handler raises and the step
\* changes no state.
C28_ClockSetBack ==
    /\ [](\A u \in DOMAIN last_vote_attempt, s \in Tags :
             (now < last_vote_attempt[u] /\ Registered(s)) =>
                 VoteOutcome(u, s) = "CooldownActive")
    /\ [](\A u \in DOMAIN last_downvote_attempt, r \in Reasons :
             now < last_downvote_attempt[u] =>
                 ComplaintOutcome(u, GROUP_CHAT_ID, r) = "CooldownActive")
    /\ [][\A u \in DOMAIN last_vote_attempt, s \in Tags :
            (/\ now < last_vote_attempt[u] /\ Registered(s)
             /\ handle_vote_button(u, s)) => UNCHANGED programVars]_vars
    /\ [][\A u \in DOMAIN last_downvote_attempt, r \in Reasons :
            (/\ now < last_downvote_attempt[u]
             /\ nepatiko(u, GROUP_CHAT_ID, Tag("Seller1"), r))
                => UNCHANGED programVars]_vars

\* the clock reads 0 after a vote was accepted at 3 days and a complaint filed
\* at 7 days, and both a new vote and a new complaint are refused
C28_Witness ==
    \E u, c \in Users :
        /\ now = 0
        /\ u \in DOMAIN last_vote_attempt /\ last_vote_attempt[u] = 3 * Day
        /\ c \in DOMAIN last_downvote_attempt /\ last_downvote_attempt[c] = Week
        /\ VoteOutcome(u, Tag("Seller1")) = "CooldownActive"
        /\ ComplaintOutcome(c, GROUP_CHAT_ID, "late delivery") = "CooldownActive"

(***************************************************************************)
(* C29.  Chat messages during the daily award job                          *)
(***************************************************************************)
\* C29 as stated: chat messages handled while the daily award job waits in
\* send_message neither abort the job nor make it skip a user: with the
\* ledger a defaultdict, a run of the job ends only after its loop has passed
\* every user of the daily store, and the same run clears the daily store.
C29_MessagesDuringAward ==
    [][(plain = {} /\ award.at # "idle" /\ award'.at = "idle") =>
          /\ award.todo = << >>
          /\ daily_messages' = EmptyDict
    ]_vars

(***************************************************************************)
(* C30.  The vote history is append-only                                   *)
(***************************************************************************)
\* C30: every event recorded in the vote history stays where it is with the
\* fields it was recorded with: no step, a seller removal and the weekly
\* reset included, removes, reorders or alters an event; a step only appends.
C30_HistoryAppendOnly ==
    [][\A s \in DOMAIN vote_history :
         /\ s \in DOMAIN vote_history'
         /\ Len(vote_history'[s]) >= Len(vote_history[s])
         /\ \A i \in DOMAIN vote_history[s] :
                vote_history'[s][i] = vote_history[s][i]
    ]_vars

\* a seller with two recorded events, the first an upvote, was removed and
\* the week was reset after the upvote
C30_Witness ==
    /\ Tag("Seller1") \in DOMAIN vote_history
    /\ Len(vote_history[Tag("Seller1")]) = 2
    /\ vote_history[Tag("Seller1")][1][2] = "up"
    /\ ~Registered(Tag("Seller1"))
    /\ since_reset = {}
    /\ last_vote_attempt = EmptyDict

(***************************************************************************)
(* C31.  The expiry callback of a replaced challenge                       *)
(***************************************************************************)
\* the clock readings around a challenge that is replaced 100 s after it was
\* stored
ReplaceTimes == {0, 100, 300}
TickReplace ==
    /\ \E t \in ReplaceTimes : t > now /\ now' = t
    /\ UNCHANGED <<plain, trusted_sellers, votes_weekly, votes_monthly,
                   votes_alltime, voters, downvoters, pending_downvotes,
                   approved_downvotes, vote_history, last_vote_attempt,
                   last_downvote_attempt, complaint_id, user_points>>
    /\ UNCHANGED <<ghostVars, chatVars, wagerVars, boardVars, pollVars>>

\* wagers in the group between users who have chatted and hold points
NextReplace ==
    \/ TickReplace
    \/ \E u \in Users : handle_message(u, GROUP_CHAT_ID, <<"labas">>)
    \/ \E n \in CreditAmounts, u \in Users : addpoints(ADMIN_CHAT_ID, n, u)
    \/ \E u \in Users, o \in Opponents : coinflip(u, GROUP_CHAT_ID, 5, o)
    \/ \E u \in Users : accept_coinflip(u, GROUP_CHAT_ID)
    \/ accept_transfer
    \/ accept_end
    \/ \E job \in jobs : expire_challenge(job)

InitReplace == Init /\ now = 0 /\ plain = {}
SpecReplace == InitReplace /\ [][NextReplace]_vars

\* C31 as stated: an expiry callback that finds a challenge pending for its
\* target, stored by another user before the callback was due, deletes it
\* only if it is the challenge whose proposal scheduled the callback; a
\* challenge that replaced that one before it expired is left pending while
\* its own 300 s are not over.
C31_ExpiryOfReplaced ==
    [][\A job \in jobs :
         (/\ expire_challenge(job)
          /\ job.target \in DOMAIN coinflip_challenges
          /\ coinflip_challenges[job.target][1] # job.target
          /\ coinflip_challenges[job.target][3] < job.due
          /\ now < coinflip_challenges[job.target][3] + 300)
            => instance_of[job.target] = job.inst
    ]_vars

(***************************************************************************)
(* C32.  The keys of the tallies                                           *)
(***************************************************************************)
\* C32 as stated: every key of the weekly, the monthly and the all-time tally
\* is a seller of the roster; a complaint against a tag that is not in the
\* roster creates no tally entry when it is approved.
C32_TallyKeysRegistered ==
    \A t \in DOMAIN votes_weekly \cup DOMAIN votes_monthly
                \cup DOMAIN votes_alltime : Registered(t)

(***************************************************************************)
(* C33.  No challenge stays pending forever                                *)
(***************************************************************************)
LiveTimes == {0, ChallengeSeconds, 2 * ChallengeSeconds}
TickLive ==
    /\ \E t \in LiveTimes : t > now /\ now' = t
    /\ UNCHANGED <<plain, trusted_sellers, votes_weekly, votes_monthly,
                   votes_alltime, voters, downvoters, pending_downvotes,
                   approved_downvotes, vote_history, last_vote_attempt,
                   last_downvote_attempt, complaint_id, user_points>>
    /\ UNCHANGED <<ghostVars, chatVars, wagerVars, boardVars, pollVars>>

\* wagers between users who have chatted, the clock moving on
NextLive ==
    \/ TickLive
    \/ \E n \in CreditAmounts, u \in Users : addpoints(ADMIN_CHAT_ID, n, u)
    \/ \E u \in Users, o \in Opponents : coinflip(u, GROUP_CHAT_ID, 5, o)
    \/ \E u \in Users, c \in Chats : accept_coinflip(u, c)
    \/ accept_transfer
    \/ accept_end
    \/ \E job \in jobs : expire_challenge(job)

\* both users have written one message in the group
InitLive ==
    /\ now = 0 /\ plain = {}
    /\ InitStores /\ InitBoard
    /\ username_to_id = [n \in {At(Lower(Username(u))) : u \in Users} |->
                            CHOOSE u \in Users : At(Lower(Username(u))) = n]
    /\ daily_messages = [u \in Users |-> [d \in {0} |-> 1]]
    /\ weekly_messages = [u \in Users |-> 1]
    /\ alltime_messages = [u \in Users |-> 1]
    /\ chat_streaks = [u \in Users |-> 1]
    /\ last_chat_day = [u \in Users |-> 0]
    /\ daily_order = <<1, 2>>
    /\ sent = [u \in Users |-> 1]

\* the callbacks the job queue can hold
LiveJobs ==
    [target : Users, due : {t + ChallengeSeconds : t \in LiveTimes},
     inst : 1..MaxChallenges]
\* the clock moves on and the job queue runs every callback that is due
SpecLive ==
    /\ InitLive /\ [][NextLive]_vars
    /\ WF_vars(TickLive)
    /\ \A job \in LiveJobs : WF_vars(expire_challenge(job))

Pending(t, i) == t \in DOMAIN instance_of /\ instance_of[t] = i

C34_FiledCompletely ==
    \A cid \in DOMAIN pending_downvotes :
        LET u == pending_downvotes[cid][2]
            filed == pending_downvotes[cid][4]
        IN  /\ u \in DOMAIN user_points /\ user_points[u] >= 5
            /\ u \in DOMAIN last_downvote_attempt
            /\ last_downvote_attempt[u] >= filed

(***************************************************************************)
(* C35.  The maintenance jobs run twice                                    *)
(***************************************************************************)
\* weekly_recap (lines 824-838): an empty weekly store ends the job at once;
\* otherwise the recap of the three busiest users is sent and the weekly
\* counters are cleared.  The job only reads the username directory.
weekly_recap ==
    /\ IF weekly_messages = EmptyDict
       THEN UNCHANGED weekly_messages
       ELSE weekly_messages' = EmptyDict
    /\ UNCHANGED <<username_to_id, daily_messages, alltime_messages,
                   chat_streaks, last_chat_day, daily_order, award, award_ran,
                   sent>>
    /\ UNCHANGED <<ledgerVars, ghostVars, wagerVars>>
    /\ UNCHANGED <<boardVars, pollVars>>

\* the points one uninterrupted run of the loop of lines 798-806 credits
RECURSIVE AwardCredits(_, _, _, _, _)
AwardCredits(todo, daily, streaks, points, yesterday) ==
    IF todo = << >> THEN 0
    ELSE LET user_id == Head(todo)
             msg_count == Get(Get(daily, user_id, EmptyDict), yesterday, 0)
         IN  IF msg_count < 50
             THEN AwardCredits(Tail(todo), daily, streaks, points, yesterday)
             ELSE IF Raises("chat_streaks", streaks, user_id)
                     \/ Raises("user_points", points, user_id)
             THEN 0
             ELSE AwardPoints(msg_count, Get(streaks, user_id, 0))
                  + AwardCredits(Tail(todo), daily, streaks, points, yesterday)

\* the message counts of the day before
TwiceCounts == {49, 120}
\* the morning after a day on which both users chatted.  The ledger is the
\* supplied defaultdict or the plain dict of a snapshot, and holds 5 points
\* the moderator added with /addpoints (and line 929 saved) for none, one or
\* both of the users.
InitTwice ==
    /\ now = Day
    /\ plain \in {{}, {"user_points"}}
    /\ trusted_sellers = <<Tag("Seller1"), Tag("Seller2"), Tag("Seller3")>>
    /\ votes_weekly = EmptyDict
    /\ votes_monthly = EmptyDict
    /\ votes_alltime = EmptyDict
    /\ voters = {}
    /\ downvoters = {}
    /\ pending_downvotes = EmptyDict
    /\ approved_downvotes = EmptyDict
    /\ vote_history = EmptyDict
    /\ last_vote_attempt = EmptyDict
    /\ last_downvote_attempt = EmptyDict
    /\ complaint_id = 0
    /\ \E holders \in SUBSET Users : user_points = [u \in holders |-> 5]
    /\ deltas_ever = [t \in Tags |-> 0]
    /\ deltas_since = [t \in Tags |-> 0]
    /\ accepted_at = EmptyDict
    /\ since_reset = {}
    /\ issued_ids = << >>
    /\ approvals = EmptyDict
    /\ refused = {}
    /\ coinflip_challenges = EmptyDict
    /\ jobs = {}
    /\ handler = NoHandler
    /\ challenge_no = 0
    /\ instance_of = EmptyDict
    /\ accepted_inst = {}
    /\ expired_inst = {}
    /\ award = NoAward
    /\ award_ran = NeverRan
    /\ InitBoard
    /\ sent = [u \in Users |-> 0]
    /\ username_to_id =
           [n \in {At(Lower(Username(u))) : u \in Users} |->
               CHOOSE u \in Users : At(Lower(Username(u))) = n]
    /\ daily_order = <<1, 2>>
    /\ \E counts \in [Users -> TwiceCounts] :
         /\ daily_messages = [u \in Users |-> [d \in {0} |-> counts[u]]]
         /\ weekly_messages = counts
         /\ alltime_messages = counts
    /\ chat_streaks = [u \in Users |-> 2]
    /\ last_chat_day = [u \in Users |-> 0]

\* the jobs of lines 1016-1022 and votes; nobody chats
NextTwice ==
    \/ TickDay
    \/ \E u \in Users : handle_vote_button(u, Tag("Seller1"))
    \/ nepatiko(1, GROUP_CHAT_ID, Tag("Seller1"), "late delivery")
    \/ award_daily_points
    \/ award_user
    \/ award_end
    \/ weekly_recap
    \/ reset_votes

SpecTwice == InitTwice /\ [][NextTwice]_vars

\* C35 as stated: each maintenance job is idempotent when it runs twice in
\* immediate succession with no user action in between.  A second run of the
\* daily award job, started when a run has just ended, credits no points; a
\* second weekly recap and a second weekly vote reset leave the state as the
\* first left it.
C35_JobsIdempotent ==
    /\ [][(award.at # "idle" /\ award'.at = "idle") =>
            AwardCredits(daily_order', daily_messages', chat_streaks',
                         user_points', award.yesterday) = 0]_vars
    /\ [][weekly_recap => (ENABLED (weekly_recap /\ UNCHANGED vars))']_vars
    /\ [][reset_votes => (ENABLED (reset_votes /\ UNCHANGED vars))']_vars

(***************************************************************************)
(* C36.  The counts of the current day and the daily award job             *)
(***************************************************************************)
\* C36 as stated: the messages counted for the current calendar day are not
\* lost to the daily award job.  When the job starts on the day after day 1,
\* the count it finds for day 1 of a user who wrote no message since day 1
\* is the number of qualifying messages the user sent on day 1, also when
\* the job of day 1 ran after some of them had been recorded.
C36_CountsKept ==
    [][(award_daily_points /\ Date(now) = 2) =>
         \A u \in Users :
             Date(Get(last_chat_day, u, DatetimeMin)) = 1
                 => MsgCount(u, 1) = sent[u]]_vars

(***************************************************************************)
(* C37.  A seller-info query creates the missing tally entries             *)
(***************************************************************************)
\* C37 as stated: a seller-info query in the group for a registered seller
\* who has no tally entry creates the weekly and the all-time entry with
\* value 0 and the monthly entry with no votes, and changes no other tally
\* entry, no point balance and no complaint.
C37_InfoCreatesEntries ==
    [][\A v \in VendorArgs :
         LET vendor == Normalize(v)
         IN  (/\ sellerinfo(GROUP_CHAT_ID, v)
              /\ Registered(vendor)
              /\ vendor \notin DOMAIN votes_weekly \cup DOMAIN votes_monthly
                                  \cup DOMAIN votes_alltime)
             => /\ votes_weekly' = Put(votes_weekly, vendor, 0)
                /\ votes_monthly' = Put(votes_monthly, vendor, << >>)
                /\ votes_alltime' = Put(votes_alltime, vendor, 0)
                /\ UNCHANGED <<user_points, pending_downvotes,
                               approved_downvotes>>]_vars

====
